---- MODULE Spec2Model ----
(***************************************************************************)
(* Call correlation and state reconciliation of the rider onboarding       *)
(* tracker: the callback handler (src/src/app/api/calls/callback/route.ts, *)
(* its first, external-id aware POST), the trigger handler                 *)
(* (src/src/app/api/calls/trigger/route.ts) and the rider_calls / riders   *)
(* tables they write (src/unnamed/part_000), and the bulk import            *)
(* (src/src/app/api/riders/import/route.ts).                               *)
(*                                                                         *)
(* Encoding of values.  A JSON value of a payload is a record [t, v] with  *)
(* t its JavaScript typeof ("undefined", "string", "number", "boolean").   *)
(* A nullable string or enum is a string with NULL for null, a nullable    *)
(* timestamp a natural number with NoTime for null, a nullable integer an  *)
(* integer with NoInt for null.  asBoolean's boolean | null result is      *)
(* "true" | "false" | NULL; the NOT NULL boolean columns are BOOLEAN.      *)
(***************************************************************************)
EXTENDS Integers, Sequences, FiniteSets, TLC

VARIABLES riders, calls, clock, trig, cb, last, served, imp, env

vars == <<riders, calls, clock, trig, cb, last, served, imp, env>>

-----------------------------------------------------------------------------
(* Bounds of the model. *)

\* callbacks processed in one behaviour
MaxCallbacks == 2
\* trigger requests handled in one behaviour
MaxTriggers == 1
\* callback requests in flight together
MaxConcurrent == 2
\* import requests handled in one behaviour
MaxImports == 1
\* document columns of one import row
MaxFlags == 3
\* import requests served one after the other in one behaviour
MaxReimports == 2

-----------------------------------------------------------------------------
(* Null values. *)

NULL == "null"
NoTime == 0
NoInt == -1

\* no import request in progress: no rows left, the counters of importFromCsv,
\* the position in the loop body (pc), the rider and existingCall of the row.
\* History of the request: its records, the sizes of the two tables when it was
\* accepted, and whether it repeats the records of the request completed before it
NoImport ==
    [rows |-> <<>>, pc |-> "idle", rider |-> 0, existingCall |-> 0,
     ridersUpserted |-> 0, callsCreated |-> 0, callsUpdated |-> 0,
     skipped |-> 0, requests |-> 0,
     records |-> <<>>, ridersBefore |-> 0, callsBefore |-> 0, again |-> FALSE]

\* the environment of the deployment: HAPPYROBOT_CALLBACK_SECRET unset
NoEnv == [callbackSecret |-> NULL]

\* JSON values
Undef == [t |-> "undefined", v |-> NULL]
Str(s) == [t |-> "string", v |-> s]
Num(n) == [t |-> "number", v |-> n]
JBool(b) == [t |-> "boolean", v |-> b]

-----------------------------------------------------------------------------
(* String primitives over the strings the payloads of the model use. *)

\* String.prototype.toLowerCase
ToLowerCase(s) ==
    CASE s = "COMPLETED" -> "completed"
      [] s = "Completed" -> "completed"
      [] s = "FAILED" -> "failed"
      [] s = "Running" -> "running"
      [] s = "YES" -> "yes"
      [] s = "True" -> "true"
      [] s = "No" -> "no"
      [] s = " YES " -> " yes "
      [] s = "T" -> "t"
      [] s = "F" -> "f"
      [] OTHER -> s

\* String.prototype.trim
Trim(s) ==
    CASE s = " " -> ""
      [] s = " 42 " -> "42"
      [] s = " yes " -> "yes"
      [] s = " YES " -> "YES"
      [] s = " completed " -> "completed"
      [] OTHER -> s

\* the strings matching /^\d+$/ and the number each one denotes
DigitStrings ==
    ("0" :> 0) @@ ("1" :> 1) @@ ("2" :> 2) @@ ("7" :> 7) @@ ("9" :> 9) @@ ("42" :> 42)
        @@ ("999" :> 999)

-----------------------------------------------------------------------------
(* Normalizers of the callback handler. *)

normalizeStatus(status) ==
    IF status.t # "string" THEN NULL
    ELSE LET s == ToLowerCase(status.v) IN
         CASE s = "pending" -> "PENDING"
           [] s = "running" -> "RUNNING"
           [] s \in {"completed", "success"} -> "COMPLETED"
           [] s \in {"failed", "error"} -> "FAILED"
           [] s \in {"canceled", "cancelled"} -> "CANCELED"
           [] OTHER -> NULL

normalizeContactStatus(status) ==
    IF status.t # "string" THEN NULL
    ELSE LET s == ToLowerCase(Trim(status.v)) IN
         CASE s = "pending" -> "PENDING"
           [] s \in {"completed", "success"} -> "COMPLETED"
           [] s = "voicemail" -> "VOICEMAIL"
           [] s \in {"no_answer", "no answer"} -> "NO_ANSWER"
           [] OTHER -> NULL

asString(v) ==
    IF v.t = "string" /\ Trim(v.v) # "" THEN v.v ELSE NULL

asInt(v) ==
    IF v.t = "number" THEN v.v
    ELSE IF v.t = "string" /\ Trim(v.v) # "" /\ Trim(v.v) \in DOMAIN DigitStrings
         THEN DigitStrings[Trim(v.v)]
         ELSE NoInt

asBoolean(v) ==
    IF v.t = "boolean" THEN (IF v.v THEN "true" ELSE "false")
    ELSE IF v.t = "number" THEN (IF v.v # 0 THEN "true" ELSE "false")
    ELSE IF v.t = "string" THEN
         LET s == ToLowerCase(Trim(v.v)) IN
         IF s \in {"true", "yes", "y", "1"} THEN "true"
         ELSE IF s \in {"false", "no", "n", "0"} THEN "false"
         ELSE NULL
    ELSE NULL

\* !a on a string | null operand
Falsy(a) == a \in {NULL, ""}
\* a || b on string | null operands
OrStr(a, b) == IF ~Falsy(a) THEN a ELSE b
\* a || b on number | null operands: 0 is falsy
OrInt(a, b) == IF a # NoInt /\ a # 0 THEN a ELSE b
\* a ?? b
Coalesce(a, b) == IF a # NULL THEN a ELSE b
\* the boolean a column stores for a non-null asBoolean result
BoolOf(b) == b = "true"

-----------------------------------------------------------------------------
(* The callback payload: a JSON object, read through the key paths below. *)

Keys ==
    {"context.source.rider_call_id", "context.source.call_id", "call_id", "callId",
     "metadata.callId", "run_id", "runId", "id",
     "external_id", "externalId", "context.external_id", "context.externalId", "context",
     "status", "contact_status", "call_status", "result.call_status",
     "result.contact_status",
     "result.summary", "summary", "outputs.summary", "extracted.summary",
     "result.transcript", "transcript", "outputs.transcript", "extracted.transcript",
     "urgent_flag", "urgent", "result.urgent_flag", "result.urgent",
     "legal_issue_flag", "legal_issue", "result.legal_issue_flag", "result.legal_issue",
     "human_requested", "humanRequested", "result.human_requested",
     "result.humanRequested"}

\* the JSON object holding the given keys and nothing else
Body(kv) == kv @@ [k \in Keys |-> Undef]

\* riderCallIdOf without the path the trigger's context is echoed under
riderCallIdOf_NoContext(anyBody) ==
    OrStr(asString(anyBody["context.source.call_id"]),
    OrStr(asString(anyBody["call_id"]),
    OrStr(asString(anyBody["callId"]),
          asString(anyBody["metadata.callId"]))))

riderCallIdOf(anyBody) ==
    OrStr(asString(anyBody["context.source.rider_call_id"]),
    OrStr(asString(anyBody["context.source.call_id"]),
    OrStr(asString(anyBody["call_id"]),
    OrStr(asString(anyBody["callId"]),
          asString(anyBody["metadata.callId"])))))

runIdOf(anyBody) ==
    OrStr(asString(anyBody["run_id"]),
    OrStr(asString(anyBody["runId"]), asString(anyBody["id"])))

externalIdOf(anyBody) ==
    OrInt(asInt(anyBody["external_id"]),
    OrInt(asInt(anyBody["externalId"]),
    OrInt(asInt(anyBody["context.external_id"]),
    OrInt(asInt(anyBody["context.externalId"]),
          asInt(anyBody["context"])))))

contactStatusOf(anyBody) ==
    OrStr(normalizeContactStatus(anyBody["contact_status"]),
    OrStr(normalizeContactStatus(anyBody["call_status"]),
    OrStr(normalizeContactStatus(anyBody["result.call_status"]),
          normalizeContactStatus(anyBody["result.contact_status"]))))

summaryOf(anyBody) ==
    OrStr(asString(anyBody["result.summary"]),
    OrStr(asString(anyBody["summary"]),
    OrStr(asString(anyBody["outputs.summary"]),
          asString(anyBody["extracted.summary"]))))

transcriptOf(anyBody) ==
    OrStr(asString(anyBody["result.transcript"]),
    OrStr(asString(anyBody["transcript"]),
    OrStr(asString(anyBody["outputs.transcript"]),
          asString(anyBody["extracted.transcript"]))))

urgentFlagOf(anyBody) ==
    Coalesce(asBoolean(anyBody["urgent_flag"]),
    Coalesce(asBoolean(anyBody["urgent"]),
    Coalesce(asBoolean(anyBody["result.urgent_flag"]),
             asBoolean(anyBody["result.urgent"]))))

legalIssueFlagOf(anyBody) ==
    Coalesce(asBoolean(anyBody["legal_issue_flag"]),
    Coalesce(asBoolean(anyBody["legal_issue"]),
    Coalesce(asBoolean(anyBody["result.legal_issue_flag"]),
             asBoolean(anyBody["result.legal_issue"]))))

humanRequestedOf(anyBody) ==
    Coalesce(asBoolean(anyBody["human_requested"]),
    Coalesce(asBoolean(anyBody["humanRequested"]),
    Coalesce(asBoolean(anyBody["result.human_requested"]),
             asBoolean(anyBody["result.humanRequested"]))))

\* the fields the handler extracts from the payload before its transaction
Extract(anyBody) ==
    [riderCallId |-> riderCallIdOf(anyBody),
     runId |-> runIdOf(anyBody),
     externalId |-> externalIdOf(anyBody),
     status |-> normalizeStatus(anyBody["status"]),
     contactStatus |-> contactStatusOf(anyBody),
     summary |-> summaryOf(anyBody),
     transcript |-> transcriptOf(anyBody),
     urgentFlag |-> urgentFlagOf(anyBody),
     legalIssueFlag |-> legalIssueFlagOf(anyBody),
     humanRequested |-> humanRequestedOf(anyBody)]

\* !riderCallId && !runId && !externalId
MissingCorrelationId(x) ==
    x.riderCallId = NULL /\ x.runId = NULL /\ x.externalId \in {NoInt, 0}

-----------------------------------------------------------------------------
(* The two tables.  riders and calls are sequences of rows; a row keeps its *)
(* position, and its id column names it.                                    *)

RiderIds == <<"r1", "r2", "r3", "r4", "r5", "r6", "r7", "r8", "r9", "r10", "r11", "r12">>
CallIds == <<"c1", "c2", "c3", "c4", "c5", "c6", "c7", "c8", "c9", "c10", "c11", "c12">>

TerminalStatuses == {"COMPLETED", "FAILED", "CANCELED"}

NoWorkflowResult ==
    [summary |-> NULL, transcript |-> NULL, contactStatus |-> NULL,
     urgentFlag |-> NULL, legalIssueFlag |-> NULL, humanRequested |-> NULL,
     lastCallbackAt |-> NoTime]

NoCallbackReceipt == [receivedAt |-> NoTime, runId |-> NULL]

NoSnapshot == [externalId |-> NoInt, driverName |-> NULL, phoneNumber |-> NULL]

\* a metadata document with the given source / externalId / riderSnapshot keys and
\* no other key
Metadata(source, externalId, riderSnapshot) ==
    [source |-> source, externalId |-> externalId, riderSnapshot |-> riderSnapshot,
     workflowResult |-> NoWorkflowResult,
     happyrobotCallback |-> NoCallbackReceipt]

\* a riders row as the column defaults leave it
NewRider(id, externalId, driverName, phoneNumber, now) ==
    [id |-> id, externalId |-> externalId, driverName |-> driverName,
     phoneNumber |-> phoneNumber, city |-> NULL,
     lastContactAt |-> NoTime, lastContactStatus |-> NULL,
     urgentFlag |-> FALSE, legalIssueFlag |-> FALSE, humanRequested |-> FALSE,
     createdAt |-> now, updatedAt |-> now]

\* a rider_calls row as the column defaults leave it
NewCall(id, riderId, now) ==
    [id |-> id, riderId |-> riderId, initiatedByUserId |-> NULL,
     runId |-> NULL, status |-> "PENDING",
     contactStatus |-> NULL, contactedAt |-> NoTime,
     transcript |-> NULL, summary |-> NULL,
     urgentFlag |-> FALSE, legalIssueFlag |-> FALSE, humanRequested |-> FALSE,
     metadata |-> Metadata(NULL, NoInt, NoSnapshot), errorMsg |-> NULL,
     attempt |-> NoInt,
     createdAt |-> now, updatedAt |-> now, completedAt |-> NoTime]

\* positions of the rows a lookup matches (0: no row)
FindCallById(cs, id) ==
    IF \E i \in DOMAIN cs : cs[i].id = id
    THEN CHOOSE i \in DOMAIN cs : cs[i].id = id ELSE 0

FindCallByRunId(cs, runId) ==
    IF \E i \in DOMAIN cs : cs[i].runId = runId
    THEN CHOOSE i \in DOMAIN cs : cs[i].runId = runId ELSE 0

FindRiderById(rs, id) ==
    IF \E i \in DOMAIN rs : rs[i].id = id
    THEN CHOOSE i \in DOMAIN rs : rs[i].id = id ELSE 0

\* a lookup by externalId that finds no rider
FindRiderByExternalId_None(rs, externalId) == 0

FindRiderByExternalId(rs, externalId) ==
    IF \E i \in DOMAIN rs : rs[i].externalId = externalId
    THEN CHOOSE i \in DOMAIN rs : rs[i].externalId = externalId ELSE 0

\* rider_calls without its unique index on run_id
RunIdTaken_NoIndex(cs, i, runId) == FALSE

\* rider_calls_run_id_key: a write giving row i the non-null runId is refused
\* when another row holds it
RunIdTaken(cs, i, runId) ==
    runId # NULL /\ \E j \in DOMAIN cs : j # i /\ cs[j].runId = runId

\* orderBy createdAt desc, first row: the rows of S no other row of S is newer than
MostRecent(cs, S) ==
    {i \in S : \A j \in S : cs[j].createdAt <= cs[i].createdAt}

-----------------------------------------------------------------------------
(* Correlation: which rider_calls row a callback is merged into. *)

\* FindByWhere with the two lookups in the other order: run id before call id
FindByWhere_RunIdFirst(cs, x) ==
    IF x.runId # NULL THEN FindCallByRunId(cs, x.runId)
    ELSE IF x.riderCallId # NULL THEN FindCallById(cs, x.riderCallId)
    ELSE 0

\* the findUnique on `where`: by id when the payload has a call id, else by runId
FindByWhere(cs, x) ==
    IF x.riderCallId # NULL THEN FindCallById(cs, x.riderCallId)
    ELSE IF x.runId # NULL THEN FindCallByRunId(cs, x.runId)
    ELSE 0

\* the rows the first findFirst filters on
OpenCalls(cs, riderId) ==
    {i \in DOMAIN cs :
        /\ cs[i].riderId = riderId
        /\ \/ cs[i].status = "PENDING"
           \/ cs[i].status = "RUNNING"
           \/ cs[i].contactStatus = NULL
           \/ cs[i].contactStatus = "PENDING"}

\* CallsOf without the riderId of the where clause
CallsOf_AnyRider(cs, riderId) == DOMAIN cs

CallsOf(cs, riderId) == {i \in DOMAIN cs : cs[i].riderId = riderId}

\* ExternalCandidates without its first findFirst: the newest row of any status
ExternalCandidates_AnyStatus(cs, riderId) == MostRecent(cs, CallsOf(cs, riderId))

\* findFirst(open, newest) || findFirst(any, newest): the rows either may return
ExternalCandidates(cs, riderId) ==
    IF OpenCalls(cs, riderId) # {}
    THEN MostRecent(cs, OpenCalls(cs, riderId))
    ELSE MostRecent(cs, CallsOf(cs, riderId))

\* Resolutions without `if (!rider) return null`: an external id no rider has is
\* taken for the first rider's
Resolutions_AnyRider(rs, cs, x) ==
    LET direct == FindByWhere(cs, x)
        found == FindRiderByExternalId(rs, x.externalId)
        r == IF found = 0 THEN 1 ELSE found
    IN  IF direct # 0 THEN {[kind |-> "found", call |-> direct, rider |-> 0]}
        ELSE IF x.externalId \notin {NoInt, 0}
        THEN IF ExternalCandidates(cs, rs[r].id) # {}
             THEN {[kind |-> "found", call |-> c, rider |-> r] :
                      c \in ExternalCandidates(cs, rs[r].id)}
             ELSE {[kind |-> "create", call |-> 0, rider |-> r]}
        ELSE {[kind |-> "none", call |-> 0, rider |-> 0]}

\* the outcomes of the lookups of one callback: the row found, the rider to create
\* a row for, or nothing
Resolutions(rs, cs, x) ==
    LET direct == FindByWhere(cs, x)
        r == FindRiderByExternalId(rs, x.externalId)
    IN  IF direct # 0 THEN {[kind |-> "found", call |-> direct, rider |-> 0]}
        ELSE IF x.externalId \notin {NoInt, 0}
        THEN IF r = 0 THEN {[kind |-> "none", call |-> 0, rider |-> 0]}
             ELSE IF ExternalCandidates(cs, rs[r].id) # {}
             THEN {[kind |-> "found", call |-> c, rider |-> r] :
                      c \in ExternalCandidates(cs, rs[r].id)}
             ELSE {[kind |-> "create", call |-> 0, rider |-> r]}
        ELSE {[kind |-> "none", call |-> 0, rider |-> 0]}

\* CreatedCall without the `|| COMPLETED` defaults: the column defaults stay
CreatedCall_ColumnDefaults(id, riderId, x, now) ==
    [NewCall(id, riderId, now) EXCEPT
        !.status = IF x.status # NULL THEN x.status ELSE @,
        !.contactStatus = x.contactStatus,
        !.contactedAt = now,
        !.summary = x.summary,
        !.transcript = x.transcript,
        !.urgentFlag = BoolOf(Coalesce(x.urgentFlag, "false")),
        !.legalIssueFlag = BoolOf(Coalesce(x.legalIssueFlag, "false")),
        !.humanRequested = BoolOf(Coalesce(x.humanRequested, "false")),
        !.runId = x.runId,
        !.metadata = Metadata("callback_external_id", x.externalId, NoSnapshot)]

\* the row riderCall.create writes when the rider has no call yet
CreatedCall(id, riderId, x, now) ==
    [NewCall(id, riderId, now) EXCEPT
        !.status = IF x.status # NULL THEN x.status ELSE "COMPLETED",
        !.contactStatus = IF x.contactStatus # NULL THEN x.contactStatus ELSE "COMPLETED",
        !.contactedAt = now,
        !.summary = x.summary,
        !.transcript = x.transcript,
        !.urgentFlag = BoolOf(Coalesce(x.urgentFlag, "false")),
        !.legalIssueFlag = BoolOf(Coalesce(x.legalIssueFlag, "false")),
        !.humanRequested = BoolOf(Coalesce(x.humanRequested, "false")),
        !.runId = x.runId,
        !.metadata = Metadata("callback_external_id", x.externalId, NoSnapshot)]

-----------------------------------------------------------------------------
(* Result merge. *)

\* mergedMetadata without the spread of the stored workflowResult
mergedMetadata_FreshResult(existing, x, now) ==
    [existing.metadata EXCEPT
        !.workflowResult =
            [summary |-> x.summary, transcript |-> x.transcript,
             contactStatus |-> x.contactStatus, urgentFlag |-> x.urgentFlag,
             legalIssueFlag |-> x.legalIssueFlag, humanRequested |-> x.humanRequested,
             lastCallbackAt |-> now],
        !.happyrobotCallback =
            [receivedAt |-> now, runId |-> OrStr(x.runId, existing.runId)]]

mergedMetadata(existing, x, now) ==
    LET old == existing.metadata.workflowResult IN
    [existing.metadata EXCEPT
        !.workflowResult =
            [summary |-> IF x.summary # NULL THEN x.summary ELSE old.summary,
             transcript |-> IF x.transcript # NULL THEN x.transcript ELSE old.transcript,
             contactStatus |->
                 IF x.contactStatus # NULL THEN x.contactStatus ELSE old.contactStatus,
             urgentFlag |-> IF x.urgentFlag # NULL THEN x.urgentFlag ELSE old.urgentFlag,
             legalIssueFlag |->
                 IF x.legalIssueFlag # NULL THEN x.legalIssueFlag ELSE old.legalIssueFlag,
             humanRequested |->
                 IF x.humanRequested # NULL THEN x.humanRequested ELSE old.humanRequested,
             lastCallbackAt |-> now],
        !.happyrobotCallback =
            [receivedAt |-> now, runId |-> OrStr(x.runId, existing.runId)]]

terminalStatus(x) == x.status \in TerminalStatuses

\* MergedRunId without its guard on the run id read: the payload's run id is
\* written whenever it is present
MergedRunId_Overwrite(cur, existing, x) ==
    IF x.runId # NULL THEN x.runId ELSE cur.runId

\* the runId the update writes: the payload's when the row read had none
MergedRunId(cur, existing, x) ==
    IF x.runId # NULL /\ Falsy(existing.runId) THEN x.runId ELSE cur.runId

\* MergedStatus with the default of the create: no status is taken for COMPLETED
MergedStatus_Defaulted(cur, x) == IF x.status # NULL THEN x.status ELSE "COMPLETED"

MergedStatus(cur, x) == IF x.status # NULL THEN x.status ELSE cur.status

MergedCompletedAt(cur, x, now) == IF terminalStatus(x) THEN now ELSE cur.completedAt

\* MergedFlag without its guard: an absent flag is written as false
MergedFlag_Reset(cur, flag) == BoolOf(flag)

\* ...(flag !== null ? { flag } : {}): the column after the update
MergedFlag(cur, flag) == IF flag # NULL THEN BoolOf(flag) ELSE cur

\* riderCall.update: `cur` the row at the time of the write, `existing` the row
\* the transaction read, `at` the time of the write (updatedAt)
UpdatedCall(cur, existing, x, now, at) ==
    [cur EXCEPT
        !.runId = MergedRunId(cur, existing, x),
        !.status = MergedStatus(cur, x),
        !.completedAt = MergedCompletedAt(cur, x, now),
        !.contactStatus = IF x.contactStatus # NULL THEN x.contactStatus ELSE @,
        !.contactedAt = now,
        !.summary = IF x.summary # NULL THEN x.summary ELSE @,
        !.transcript = IF x.transcript # NULL THEN x.transcript ELSE @,
        !.urgentFlag = MergedFlag(@, x.urgentFlag),
        !.legalIssueFlag = MergedFlag(@, x.legalIssueFlag),
        !.humanRequested = MergedFlag(@, x.humanRequested),
        !.metadata = mergedMetadata(existing, x, now),
        !.updatedAt = at]

\* UpdatedRider with lastContactAt written only along with a contact outcome
UpdatedRider_OutcomeOnly(r, x, now, at) ==
    [r EXCEPT
        !.lastContactAt = IF x.contactStatus # NULL THEN now ELSE @,
        !.lastContactStatus = IF x.contactStatus # NULL THEN x.contactStatus ELSE @,
        !.urgentFlag = MergedFlag(@, x.urgentFlag),
        !.legalIssueFlag = MergedFlag(@, x.legalIssueFlag),
        !.humanRequested = MergedFlag(@, x.humanRequested),
        !.updatedAt = at]

\* rider.update of the derived fields
UpdatedRider(r, x, now, at) ==
    [r EXCEPT
        !.lastContactAt = now,
        !.lastContactStatus = IF x.contactStatus # NULL THEN x.contactStatus ELSE @,
        !.urgentFlag = MergedFlag(@, x.urgentFlag),
        !.legalIssueFlag = MergedFlag(@, x.legalIssueFlag),
        !.humanRequested = MergedFlag(@, x.humanRequested),
        !.updatedAt = at]

\* the rider_calls table once the transaction's create (if any) has run
AfterCreate(rs, cs, target, x, now) ==
    IF target.kind = "create"
    THEN Append(cs, CreatedCall(CallIds[Len(cs) + 1], rs[target.rider].id, x, now))
    ELSE cs

\* position of the row the transaction updates
TargetCall(cs, target) == IF target.kind = "create" THEN Len(cs) + 1 ELSE target.call

\* a unique-index violation aborts the transaction: the create's runId, or the
\* runId the update sets, is held by another row
TxThrows(cs, target, existing, x) ==
    \/ target.kind = "create" /\ RunIdTaken(cs, 0, x.runId)
    \/ /\ target.kind = "found"
       /\ x.runId # NULL /\ Falsy(existing.runId)
       /\ RunIdTaken(cs, target.call, x.runId)

\* the tables the transaction commits: `existing` is the row it read (for a create,
\* the row it created)
CommittedCalls(rs, cs, target, existing, x, now, at) ==
    LET cs1 == AfterCreate(rs, cs, target, x, now)
        i == TargetCall(cs, target)
    IN  [cs1 EXCEPT ![i] = UpdatedCall(cs1[i], existing, x, now, at)]

\* CommittedRiders with the derived fields written to every rider
CommittedRiders_EveryRider(rs, cs, target, x, now, at) ==
    [r \in DOMAIN rs |-> UpdatedRider(rs[r], x, now, at)]

CommittedRiders(rs, cs, target, x, now, at) ==
    LET cs1 == AfterCreate(rs, cs, target, x, now)
        r == FindRiderById(rs, cs1[TargetCall(cs, target)].riderId)
    IN  [rs EXCEPT ![r] = UpdatedRider(rs[r], x, now, at)]

\* the row `existing` of a transaction that reads and writes without interruption
ExistingRow(rs, cs, target, x, now) ==
    AfterCreate(rs, cs, target, x, now)[TargetCall(cs, target)]

-----------------------------------------------------------------------------
(* The handlers' record of the last request served (op, extraction, response). *)

NoExtract ==
    [riderCallId |-> NULL, runId |-> NULL, externalId |-> NoInt, status |-> NULL,
     contactStatus |-> NULL, summary |-> NULL, transcript |-> NULL,
     urgentFlag |-> NULL, legalIssueFlag |-> NULL, humanRequested |-> NULL]

Served(op, x, now, call, rider, response) ==
    [op |-> op, x |-> x, now |-> now, call |-> call, rider |-> rider,
     response |-> response]

-----------------------------------------------------------------------------
(* The callback handler, served without interruption.  The deployment of the *)
(* model sets no HAPPYROBOT_CALLBACK_SECRET and its payloads are JSON objects. *)

\* POST /api/calls/callback
Callback(anyBody) ==
    LET x == Extract(anyBody)
        now == clock
    IN  /\ served < MaxCallbacks
        /\ served' = served + 1
        /\ clock' = clock + 1
        /\ UNCHANGED <<trig, cb, imp, env>>
        /\ IF MissingCorrelationId(x)
           THEN /\ last' = Served("callback", x, now, 0, 0, 400)
                /\ UNCHANGED <<riders, calls>>
           ELSE \E target \in Resolutions(riders, calls, x) :
                  IF target.kind = "none"
                  THEN /\ last' = Served("callback", x, now, 0, 0, 404)
                       /\ UNCHANGED <<riders, calls>>
                  ELSE LET existing == ExistingRow(riders, calls, target, x, now)
                           i == TargetCall(calls, target)
                       IN  IF TxThrows(calls, target, existing, x)
                           THEN /\ last' = Served("callback", x, now,
                                                  target.call, 0, 500)
                                /\ UNCHANGED <<riders, calls>>
                           ELSE /\ calls' = CommittedCalls(riders, calls, target,
                                                           existing, x, now, now)
                                /\ riders' = CommittedRiders(riders, calls, target,
                                                             x, now, now)
                                /\ last' = Served("callback", x, now, i,
                                                  FindRiderById(riders, existing.riderId),
                                                  200)

-----------------------------------------------------------------------------
(* The trigger handler.  Its store writes are separate statements with awaits *)
(* between them, so other requests are served between its steps; trig[t] is  *)
(* the position of request t.  The requests of the model are authorized and  *)
(* pass triggerSchema.                                                       *)

TriggerRequests ==
    {[externalId |-> 42, driverName |-> "Ana", phoneNumber |-> "+34600111222"],
     [externalId |-> NoInt, driverName |-> "Eva", phoneNumber |-> "+34600555666"]}

\* what the provider's success response yields as runId (NULL: undefined, none of
\* queued_run_ids[0], run_id, id is there; "": its id is the empty string)
ProviderRunIds == {"run_2", "run_1", "", NULL}

\* the riders table after rider.upsert / rider.create
UpsertedRiders(rs, data, at) ==
    LET r == FindRiderByExternalId(rs, data.externalId) IN
    IF data.externalId # NoInt /\ r # 0
    THEN [rs EXCEPT ![r] = [@ EXCEPT !.phoneNumber = data.phoneNumber,
                                     !.driverName = data.driverName,
                                     !.updatedAt = at]]
    ELSE Append(rs, NewRider(RiderIds[Len(rs) + 1], data.externalId,
                             data.driverName, data.phoneNumber, at))

\* position of the row the upsert returns
UpsertedRider(rs, data) ==
    LET r == FindRiderByExternalId(rs, data.externalId) IN
    IF data.externalId # NoInt /\ r # 0 THEN r ELSE Len(rs) + 1

\* the row riderCall.create writes
TriggeredCall(id, rider, userId, at) ==
    [NewCall(id, rider.id, at) EXCEPT
        !.initiatedByUserId = userId,
        !.metadata = Metadata("uber-rider-onboarding", NoInt,
                              [externalId |-> rider.externalId,
                               driverName |-> rider.driverName,
                               phoneNumber |-> rider.phoneNumber])]

\* RunningCall without the runId of its data
RunningCall_StatusOnly(cur, runId, at) ==
    [cur EXCEPT !.status = "RUNNING", !.updatedAt = at]

\* the update after a success response: data {runId, status: "RUNNING"}
RunningCall(cur, runId, at) ==
    [cur EXCEPT !.runId = IF runId # NULL THEN runId ELSE @,
                !.status = "RUNNING",
                !.updatedAt = at]

\* FailedCall without the errorMsg of its data
FailedCall_NoMessage(cur, errorMsg, at) ==
    [cur EXCEPT !.status = "FAILED", !.updatedAt = at]

\* the update after a non-success response or in the catch block
FailedCall(cur, errorMsg, at) ==
    [cur EXCEPT !.status = "FAILED", !.errorMsg = errorMsg, !.updatedAt = at]

\* lines 66-99: the rider is upserted (by externalId) or created
TriggerUpsertRider(data) ==
    /\ Len(trig) < MaxTriggers
    /\ riders' = UpsertedRiders(riders, data, clock)
    /\ trig' = Append(trig, [pc |-> "rider", data |-> data,
                             rider |-> UpsertedRider(riders, data),
                             call |-> 0, sent |-> NULL, sentAt |-> NoTime])
    /\ clock' = clock + 1
    /\ UNCHANGED <<calls, cb, last, served, imp, env>>

\* lines 101-124: the call is created PENDING
TriggerCreateCall(t) ==
    /\ trig[t].pc = "rider"
    /\ calls' = Append(calls, TriggeredCall(CallIds[Len(calls) + 1],
                                            riders[trig[t].rider], "u1", clock))
    /\ trig' = [trig EXCEPT ![t].pc = "call", ![t].call = Len(calls) + 1]
    /\ clock' = clock + 1
    /\ UNCHANGED <<riders, cb, last, served, imp, env>>

\* lines 126-159: the request to the provider, carrying source.rider_call_id
TriggerFetch(t) ==
    /\ trig[t].pc = "call"
    /\ trig' = [trig EXCEPT ![t].pc = "fetch", ![t].sent = calls[trig[t].call].id,
                             ![t].sentAt = clock]
    /\ UNCHANGED <<riders, calls, clock, cb, last, served, imp, env>>

\* lines 161-174: the provider answers with a non-success status
TriggerProviderError(t) ==
    /\ trig[t].pc = "fetch"
    /\ calls' = [calls EXCEPT ![trig[t].call] =
                     FailedCall(@, "HappyRobot API error", clock)]
    /\ trig' = [trig EXCEPT ![t].pc = "done"]
    /\ last' = Served("trigger", NoExtract, clock, trig[t].call, trig[t].rider, 500)
    /\ clock' = clock + 1
    /\ UNCHANGED <<riders, cb, served, imp, env>>

\* lines 176-199, and 200-212 when the update is refused by the unique index
TriggerSuccess(t, runId) ==
    /\ trig[t].pc = "fetch"
    /\ IF RunIdTaken(calls, trig[t].call, runId)
       THEN /\ calls' = [calls EXCEPT ![trig[t].call] =
                            FailedCall(@, "Failed to connect to HappyRobot API: Unique constraint failed",
                                       clock)]
            /\ last' = Served("trigger", NoExtract, clock, trig[t].call,
                              trig[t].rider, 500)
       ELSE /\ calls' = [calls EXCEPT ![trig[t].call] = RunningCall(@, runId, clock)]
            /\ last' = Served("trigger", NoExtract, clock, trig[t].call,
                              trig[t].rider, 200)
    /\ trig' = [trig EXCEPT ![t].pc = "done"]
    /\ clock' = clock + 1
    /\ UNCHANGED <<riders, cb, served, imp, env>>

\* TriggerException answering 500 without the update of the catch block
TriggerException_NoWrite(t) ==
    /\ trig[t].pc = "fetch"
    /\ trig' = [trig EXCEPT ![t].pc = "done"]
    /\ last' = Served("trigger", NoExtract, clock, trig[t].call, trig[t].rider, 500)
    /\ clock' = clock + 1
    /\ UNCHANGED <<riders, calls, cb, served, imp, env>>

\* lines 200-212: fetch or response.json() throws
TriggerException(t) ==
    /\ trig[t].pc = "fetch"
    /\ calls' = [calls EXCEPT ![trig[t].call] =
                     FailedCall(@, "Failed to connect to HappyRobot API", clock)]
    /\ trig' = [trig EXCEPT ![t].pc = "done"]
    /\ last' = Served("trigger", NoExtract, clock, trig[t].call, trig[t].rider, 500)
    /\ clock' = clock + 1
    /\ UNCHANGED <<riders, cb, served, imp, env>>

-----------------------------------------------------------------------------
(* The head of the trigger handler: session, triggerSchema, signUpDate.  A  *)
(* request is [session, body]; an absent optional field of the body is NULL *)
(* (NoInt for externalId).  HAPPYROBOT_ENDPOINT is configured.              *)

\* /^\+\d/ over the phone numbers of the model
StartsWithPlusDigit ==
    ("+34600111222" :> TRUE) @@ ("+34600555666" :> TRUE) @@ ("+34600333444" :> TRUE)
        @@ ("600111222" :> FALSE)
        @@ ("+abc" :> FALSE) @@ ("" :> FALSE)

\* !Number.isNaN(new Date(s).getTime()) over the dates of the model
ParsesAsDate == ("2024-05-01" :> TRUE) @@ ("soon" :> FALSE)

\* triggerSchema without the regex on phoneNumber
triggerSchema_AnyPhone(body) ==
    /\ body.externalId = NoInt \/ body.externalId > 0
    /\ body.driverName \notin {NULL, ""}
    /\ body.phoneNumber \notin {NULL, ""}

\* triggerSchema.safeParse(body).success
triggerSchema(body) ==
    /\ body.externalId = NoInt \/ body.externalId > 0
    /\ body.driverName \notin {NULL, ""}
    /\ body.phoneNumber \notin {NULL, ""}
    /\ StartsWithPlusDigit[body.phoneNumber]

\* the status of the early return of the handler (0: none)
TriggerRejection(req) ==
    IF ~req.session THEN 401
    ELSE IF ~triggerSchema(req.body) THEN 400
    ELSE IF ~Falsy(req.body.signUpDate) /\ ~ParsesAsDate[req.body.signUpDate] THEN 400
    ELSE 0

\* POST /api/calls/trigger up to its first store write
TriggerPost(req) ==
    IF TriggerRejection(req) # 0
    THEN /\ last' = Served("trigger", NoExtract, clock, 0, 0, TriggerRejection(req))
         /\ UNCHANGED <<riders, calls, clock, trig, cb, served, imp, env>>
    ELSE TriggerUpsertRider(req.body)

TriggerBody(externalId, driverName, phoneNumber, signUpDate) ==
    [externalId |-> externalId, driverName |-> driverName,
     phoneNumber |-> phoneNumber, signUpDate |-> signUpDate]

TriggerPosts ==
    {[session |-> TRUE, body |-> TriggerBody(42, "Ana", "+34600111222", NULL)],
     [session |-> TRUE, body |-> TriggerBody(NoInt, "Eva", "+34600555666", "2024-05-01")],
     [session |-> FALSE, body |-> TriggerBody(42, "Ana", "+34600111222", NULL)],
     [session |-> TRUE, body |-> TriggerBody(42, NULL, "+34600111222", NULL)],
     [session |-> TRUE, body |-> TriggerBody(42, "Ana", "600111222", NULL)],
     [session |-> TRUE, body |-> TriggerBody(42, "Ana", "+abc", NULL)],
     [session |-> TRUE, body |-> TriggerBody(0, "Ana", "+34600111222", NULL)],
     [session |-> TRUE, body |-> TriggerBody(-5, "Ana", "+34600111222", NULL)],
     [session |-> TRUE, body |-> TriggerBody(7, "Luis", "+34600333444", "soon")]}

NextTrigger ==
    \/ \E req \in TriggerPosts : TriggerPost(req)
    \/ \E t \in DOMAIN trig : TriggerCreateCall(t)
    \/ \E t \in DOMAIN trig : TriggerFetch(t)
    \/ \E t \in DOMAIN trig : TriggerProviderError(t)
    \/ \E t \in DOMAIN trig, runId \in ProviderRunIds : TriggerSuccess(t, runId)
    \/ \E t \in DOMAIN trig : TriggerException(t)

-----------------------------------------------------------------------------
(* Payloads of the model: every way of naming a call below, with every content. *)

Correlations ==
    {<<>>,
     "call_id" :> Str("c1"),
     "run_id" :> Str("run_1"),
     "context" :> Str("7"),
     ("call_id" :> Str("c1")) @@ ("run_id" :> Str("run_2")),
     ("context.source.rider_call_id" :> Str("c2")) @@ ("run_id" :> Str("run_1")),
     ("run_id" :> Str("run_1")) @@ ("external_id" :> Num(7)),
     ("call_id" :> Str("c2")) @@ ("runId" :> Str("run_2"))}

Contents ==
    {<<>>,
     ("status" :> Str("completed")) @@ ("summary" :> Str("ok"))
         @@ ("urgent_flag" :> JBool(TRUE)),
     "status" :> Str("failed"),
     ("status" :> Str("Running")) @@ ("human_requested" :> Str("no")),
     ("contact_status" :> Str("no_answer")) @@ ("transcript" :> Str("hello"))
         @@ ("legal_issue_flag" :> Str("YES")),
     ("status" :> Str("done")) @@ ("summary" :> Str(" "))
         @@ ("urgent_flag" :> Num(0)) @@ ("human_requested" :> Str("yes"))}

Payloads == {Body(k @@ c) : k \in Correlations, c \in Contents}

-----------------------------------------------------------------------------
(* The store the behaviours start from: rider r1 (external id 42) with the   *)
(* call c1 a trigger left RUNNING under run_1, and rider r2 (external id 7)  *)
(* that has no call.                                                         *)

InitRiders ==
    <<NewRider("r1", 42, "Ana", "+34600111222", 1),
      NewRider("r2", 7, "Luis", "+34600333444", 1)>>

InitCalls ==
    <<[NewCall("c1", "r1", 1) EXCEPT
          !.initiatedByUserId = "u1", !.runId = "run_1", !.status = "RUNNING",
          !.metadata = Metadata("uber-rider-onboarding", NoInt,
                                [externalId |-> 42, driverName |-> "Ana",
                                 phoneNumber |-> "+34600111222"])]>>

Init ==
    /\ riders = InitRiders
    /\ calls = InitCalls
    /\ clock = 2
    /\ trig = <<>>
    /\ cb = <<>>
    /\ last = Served("init", NoExtract, NoTime, 0, 0, 0)
    /\ served = 0
    /\ imp = NoImport
    /\ env = NoEnv

(* Callbacks alone, from the stores a trigger leaves: the store above; r1   *)
(* triggered a second time, both calls RUNNING; a new rider whose call is   *)
(* still PENDING, its provider request in flight.                           *)

CallbackStores ==
    {[riders |-> InitRiders, calls |-> InitCalls],
     [riders |-> UpsertedRiders(InitRiders,
                     [externalId |-> 42, driverName |-> "Ana",
                      phoneNumber |-> "+34600111222"], 2),
      calls |-> Append(InitCalls,
                     RunningCall(TriggeredCall("c2", InitRiders[1], "u1", 2),
                                 "run_2", 3))],
     [riders |-> UpsertedRiders(InitRiders,
                     [externalId |-> NoInt, driverName |-> "Eva",
                      phoneNumber |-> "+34600555666"], 2),
      calls |-> Append(InitCalls,
                     TriggeredCall("c2",
                         NewRider("r3", NoInt, "Eva", "+34600555666", 2),
                         "u1", 3))]}

InitCallbacks ==
    /\ \E st \in CallbackStores : riders = st.riders /\ calls = st.calls
    /\ clock = 4
    /\ trig = <<>>
    /\ cb = <<>>
    /\ last = Served("init", NoExtract, NoTime, 0, 0, 0)
    /\ served = 0
    /\ imp = NoImport
    /\ env = NoEnv

NextCallbacks == \E anyBody \in Payloads : Callback(anyBody)

SpecCallbacks == InitCallbacks /\ [][NextCallbacks]_vars

Next ==
    \/ \E anyBody \in Payloads : Callback(anyBody)
    \/ \E data \in TriggerRequests : TriggerUpsertRider(data)
    \/ \E t \in DOMAIN trig : TriggerCreateCall(t)
    \/ \E t \in DOMAIN trig : TriggerFetch(t)
    \/ \E t \in DOMAIN trig : TriggerProviderError(t)
    \/ \E t \in DOMAIN trig, runId \in ProviderRunIds : TriggerSuccess(t, runId)
    \/ \E t \in DOMAIN trig : TriggerException(t)

Spec == Init /\ [][Next]_vars

-----------------------------------------------------------------------------
(* The callback handler under concurrent requests.  prisma.$transaction runs *)
(* at the database's default isolation (read committed): the lookups of a   *)
(* transaction read committed rows, its writes become visible to the other  *)
(* transactions together, at its commit, and each update then applies its   *)
(* data to the row as it is at that moment.  cb[k] is the position of       *)
(* request k: "begun" (payload extracted, now taken), "read" (lookups done), *)
(* "done" (answered).                                                        *)

NoRow == NewCall(NULL, NULL, NoTime)
NoTarget == [kind |-> "none", call |-> 0, rider |-> 0]

\* lines 60-150: extraction and `now`
CbBegin(anyBody) ==
    LET x == Extract(anyBody) IN
    /\ Len(cb) < MaxConcurrent
    /\ cb' = Append(cb, [pc |-> IF MissingCorrelationId(x) THEN "done" ELSE "begun",
                         x |-> x, now |-> clock, target |-> NoTarget,
                         existing |-> NoRow,
                         response |-> IF MissingCorrelationId(x) THEN 400 ELSE 0,
                         order |-> 0])
    /\ clock' = clock + 1
    /\ UNCHANGED <<riders, calls, trig, last, served, imp, env>>

\* lines 152-209: the lookups of the transaction
CbRead(k) ==
    /\ cb[k].pc = "begun"
    /\ \E target \in Resolutions(riders, calls, cb[k].x) :
          cb' = [cb EXCEPT
                    ![k].pc = IF target.kind = "none" THEN "done" ELSE "read",
                    ![k].response = IF target.kind = "none" THEN 404 ELSE 0,
                    ![k].target = target,
                    ![k].existing = IF target.kind = "found"
                                    THEN calls[target.call] ELSE NoRow]
    /\ UNCHANGED <<riders, calls, clock, trig, last, served, imp, env>>

\* number of transactions committed so far
Commits == Cardinality({k \in DOMAIN cb : cb[k].order # 0})

\* lines 186-269: the writes of the transaction and its commit
CbCommit(k) ==
    LET p == cb[k]
        existing == IF p.target.kind = "create"
                    THEN ExistingRow(riders, calls, p.target, p.x, p.now)
                    ELSE p.existing
    IN  /\ p.pc = "read"
        /\ IF TxThrows(calls, p.target, existing, p.x)
           THEN /\ cb' = [cb EXCEPT ![k].pc = "done", ![k].response = 500]
                /\ UNCHANGED <<riders, calls>>
           ELSE /\ calls' = CommittedCalls(riders, calls, p.target, existing,
                                           p.x, p.now, clock)
                /\ riders' = CommittedRiders(riders, calls, p.target, p.x, p.now, clock)
                /\ cb' = [cb EXCEPT ![k].pc = "done", ![k].response = 200,
                                    ![k].target = [p.target EXCEPT
                                        !.call = TargetCall(calls, p.target)],
                                    ![k].order = Commits + 1]
        /\ UNCHANGED <<clock, trig, last, served, imp, env>>

ConcCorrelations ==
    {"call_id" :> Str("c1"),
     ("call_id" :> Str("c1")) @@ ("run_id" :> Str("run_1")),
     ("context.source.rider_call_id" :> Str("c1")) @@ ("run_id" :> Str("run_2")),
     "external_id" :> Str("7")}

ConcContents ==
    {<<>>,
     ("status" :> Str("completed")) @@ ("summary" :> Str("ok"))
         @@ ("urgent_flag" :> JBool(TRUE)),
     ("contact_status" :> Str("voicemail")) @@ ("transcript" :> Str("hello")),
     ("status" :> Str("failed")) @@ ("urgent_flag" :> Str("no"))}

ConcPayloads == {Body(k @@ c) : k \in ConcCorrelations, c \in ConcContents}

\* the store the concurrent behaviours start from: c1 is the PENDING call of a
\* trigger whose provider response has not been written yet
ConcCalls ==
    <<[NewCall("c1", "r1", 1) EXCEPT
          !.initiatedByUserId = "u1",
          !.metadata = Metadata("uber-rider-onboarding", NoInt,
                                [externalId |-> 42, driverName |-> "Ana",
                                 phoneNumber |-> "+34600111222"])]>>

InitConc ==
    /\ riders = InitRiders
    /\ calls = ConcCalls
    /\ clock = 2
    /\ trig = <<>>
    /\ cb = <<>>
    /\ last = Served("init", NoExtract, NoTime, 0, 0, 0)
    /\ served = 0
    /\ imp = NoImport
    /\ env = NoEnv

NextConc ==
    \/ \E anyBody \in ConcPayloads : CbBegin(anyBody)
    \/ \E k \in DOMAIN cb : CbRead(k)
    \/ \E k \in DOMAIN cb : CbCommit(k)

SpecConc == InitConc /\ [][NextConc]_vars

-----------------------------------------------------------------------------
(* The trigger handler when the process stops between two of its statements. *)

TriggerCrash(t) ==
    /\ trig[t].pc \in {"rider", "call", "fetch"}
    /\ trig' = [trig EXCEPT ![t].pc = "crashed"]
    /\ UNCHANGED <<riders, calls, clock, cb, last, served, imp, env>>

NextCrash ==
    \/ Next
    \/ \E t \in DOMAIN trig : TriggerCrash(t)

SpecCrash == Init /\ [][NextCrash]_vars

-----------------------------------------------------------------------------
(* Callbacks that name a rider by external id, or name nothing the store    *)
(* holds, served one after another from stores in which rider r1 has two    *)
(* calls.                                                                   *)

ExternalCorrelations ==
    {<<>>,
     "context" :> Str("abc"),
     "external_id" :> Num(0),
     "external_id" :> Num(42),
     "context" :> Str("7"),
     "externalId" :> Num(999),
     "run_id" :> Str("run_9"),
     ("call_id" :> Str("zz")) @@ ("run_id" :> Str("run_1")),
     ("call_id" :> Str("zz")) @@ ("run_id" :> Str("run_9"))
         @@ ("context.external_id" :> Str(" 42 "))}

ExternalContents ==
    {<<>>,
     ("status" :> Str("completed")) @@ ("contact_status" :> Str("completed")),
     ("contact_status" :> Str("voicemail")) @@ ("summary" :> Str("ok")),
     "status" :> Str("Running")}

ExternalPayloads == {Body(k @@ c) : k \in ExternalCorrelations, c \in ExternalContents}

\* the payload of a callback reporting a completed call
CompletedBody ==
    Body(("status" :> Str("completed")) @@ ("contact_status" :> Str("completed")))

\* the store after the callback `anyBody` was merged into call i at time `at`
MergedStore(st, i, anyBody, at) ==
    LET target == [kind |-> "found", call |-> i, rider |-> 0] IN
    [riders |-> CommittedRiders(st.riders, st.calls, target, Extract(anyBody), at, at),
     calls |-> CommittedCalls(st.riders, st.calls, target, st.calls[i],
                              Extract(anyBody), at, at)]

\* r1 triggered a second time: c2 RUNNING under run_2, created after c1
TwoRunning ==
    [riders |-> UpsertedRiders(InitRiders,
                    [externalId |-> 42, driverName |-> "Ana",
                     phoneNumber |-> "+34600111222"], 2),
     calls |-> Append(InitCalls,
                    RunningCall(TriggeredCall("c2", InitRiders[1], "u1", 2),
                                "run_2", 3))]

\* the two trigger requests for r1 handled together: riderCall.create of the
\* second ran in the millisecond of the first, created_at (TIMESTAMP(3)) is equal
SameMillisecond ==
    [riders |-> UpsertedRiders(InitRiders,
                    [externalId |-> 42, driverName |-> "Ana",
                     phoneNumber |-> "+34600111222"], 2),
     calls |-> Append(InitCalls,
                    RunningCall(TriggeredCall("c2", InitRiders[1], "u1",
                                              InitCalls[1].createdAt),
                                "run_2", 3))]

ExternalStores ==
    {TwoRunning,
     SameMillisecond,
     MergedStore(TwoRunning, 2, CompletedBody, 4),
     MergedStore(MergedStore(TwoRunning, 1, CompletedBody, 4), 2, CompletedBody, 5)}

InitExternal ==
    /\ \E st \in ExternalStores : riders = st.riders /\ calls = st.calls
    /\ clock = 6
    /\ trig = <<>>
    /\ cb = <<>>
    /\ last = Served("init", NoExtract, NoTime, 0, 0, 0)
    /\ served = 0
    /\ imp = NoImport
    /\ env = NoEnv

NextExternal == \E anyBody \in ExternalPayloads : Callback(anyBody)

SpecExternal == InitExternal /\ [][NextExternal]_vars

-----------------------------------------------------------------------------
(* The head of the callback handler: the optional shared secret and the     *)
(* parse of the body.  A request is [secret, altSecret, json, body]: its    *)
(* x-happyrobot-callback-secret and x-callback-secret headers (NULL: not    *)
(* sent), whether req.json() yields an object, and that object.             *)

\* Unauthorized with a missing header let through
Unauthorized_MissingAllowed(requiredSecret, req) ==
    /\ ~Falsy(requiredSecret)
    /\ OrStr(req.secret, req.altSecret) # NULL
    /\ OrStr(req.secret, req.altSecret) # requiredSecret

\* requiredSecret && provided !== requiredSecret
Unauthorized(requiredSecret, req) ==
    /\ ~Falsy(requiredSecret)
    /\ OrStr(req.secret, req.altSecret) # requiredSecret

\* POST /api/calls/callback from its first line
CallbackPost(req) ==
    IF Unauthorized(env.callbackSecret, req) \/ ~req.json
    THEN /\ served < MaxCallbacks
         /\ served' = served + 1
         /\ last' = Served("callback", NoExtract, clock, 0, 0,
                           IF Unauthorized(env.callbackSecret, req) THEN 401 ELSE 400)
         /\ UNCHANGED <<riders, calls, clock, trig, cb, imp, env>>
    ELSE Callback(req.body)

SecretHeaders ==
    {[secret |-> NULL, altSecret |-> NULL],
     [secret |-> "s3cret", altSecret |-> NULL],
     [secret |-> NULL, altSecret |-> "s3cret"],
     [secret |-> "guess", altSecret |-> NULL],
     [secret |-> NULL, altSecret |-> "guess"],
     [secret |-> "guess", altSecret |-> "s3cret"]}

SecretBodies ==
    {Body(k @@ c) : k \in {"call_id" :> Str("c1"), "context" :> Str("7"),
                           "run_id" :> Str("run_1")},
                    c \in {<<>>,
                           ("status" :> Str("completed")) @@ ("summary" :> Str("ok"))
                               @@ ("urgent_flag" :> JBool(TRUE)),
                           "status" :> Str("failed"),
                           ("contact_status" :> Str("no_answer"))
                               @@ ("transcript" :> Str("hello"))}}

SecretRequests ==
    {[secret |-> h.secret, altSecret |-> h.altSecret, json |-> j, body |-> b] :
        h \in SecretHeaders, j \in BOOLEAN, b \in SecretBodies}

\* the deployments: without the secret, and with it
InitSecret ==
    /\ riders = InitRiders
    /\ calls = InitCalls
    /\ clock = 2
    /\ trig = <<>>
    /\ cb = <<>>
    /\ last = Served("init", NoExtract, NoTime, 0, 0, 0)
    /\ served = 0
    /\ imp = NoImport
    /\ env \in {NoEnv, [callbackSecret |-> "s3cret"]}

NextSecret == \E req \in SecretRequests : CallbackPost(req)

SpecSecret == InitSecret /\ [][NextSecret]_vars

-----------------------------------------------------------------------------
(* Trigger requests alone, valid or not, from the stores earlier triggers   *)
(* and callbacks leave.                                                     *)

TriggerStores ==
    {[riders |-> InitRiders, calls |-> InitCalls],
     TwoRunning,
     MergedStore(TwoRunning, 2, CompletedBody, 4)}

InitTrigger ==
    /\ \E st \in TriggerStores : riders = st.riders /\ calls = st.calls
    /\ clock = 6
    /\ trig = <<>>
    /\ cb = <<>>
    /\ last = Served("init", NoExtract, NoTime, 0, 0, 0)
    /\ served = 0
    /\ imp = NoImport
    /\ env = NoEnv

SpecTrigger == InitTrigger /\ [][NextTrigger]_vars

-----------------------------------------------------------------------------
(* The bulk import.  A CSV record is a row of trimmed-header columns; a     *)
(* column the file does not have is NULL.  The file is dataset v2 when it   *)
(* has a partner_name column.  IMPORT_API_KEY is unset, so a request is     *)
(* authorized by its session.  importFromCsv awaits every store statement;  *)
(* the model serves other requests after the rider of a row is written and  *)
(* after its existing call is looked up.                                    *)

\* String(v || "")
StrOr(v) == IF v = NULL THEN "" ELSE v

\* new Date(s).getTime() in the ticks of the model's clock, for the strings that
\* parse as dates
DateStrings == ("2024-05-01" :> 1) @@ ("2024-05-03" :> 3)

parseDate(v) ==
    LET s == Trim(StrOr(v)) IN
    IF s = "" THEN NoTime
    ELSE IF s \in DOMAIN DateStrings THEN DateStrings[s] ELSE NoTime

parseYesNo(v) == ToLowerCase(Trim(StrOr(v))) \in {"yes", "true", "1", "y"}

parseBooleanLoose(v) ==
    LET s == ToLowerCase(Trim(StrOr(v))) IN
    IF s \in {"", "-"} THEN NULL
    ELSE IF s \in {"true", "yes", "y", "1", "t"} THEN "true"
    ELSE IF s \in {"false", "no", "n", "0", "f"} THEN "false"
    ELSE NULL

parseIntLoose(v) ==
    LET s == Trim(StrOr(v)) IN
    IF s \in {"", "-"} THEN NoInt
    ELSE IF s \in DOMAIN DigitStrings THEN DigitStrings[s] ELSE NoInt

isDatasetV2(r) == r.partner_name # NULL

\* lines 164-174
contactStatusV2(r) ==
    LET callStatusRaw == ToLowerCase(Trim(StrOr(r.call_status))) IN
    IF callStatusRaw \in {"", "-", "pending"} THEN "PENDING"
    ELSE IF callStatusRaw = "completed" THEN "COMPLETED"
    ELSE IF callStatusRaw = "voicemail" THEN "VOICEMAIL"
    ELSE IF callStatusRaw \in {"no answer", "no_answer"} THEN "NO_ANSWER"
    ELSE NULL

\* lines 311-321
contactStatusLegacy(r) ==
    LET callStatusRaw == ToLowerCase(Trim(StrOr(r.call_status))) IN
    IF callStatusRaw = "completed" THEN "COMPLETED"
    ELSE IF callStatusRaw = "voicemail" THEN "VOICEMAIL"
    ELSE IF callStatusRaw \in {"no answer", "no_answer"} THEN "NO_ANSWER"
    ELSE IF callStatusRaw = "pending" THEN "PENDING"
    ELSE NULL

runStatus(contactStatus) ==
    IF contactStatus # NULL /\ contactStatus # "PENDING" THEN "COMPLETED" ELSE "PENDING"

\* lines 180-181
runIdOfRow(r) ==
    LET runIdRaw == Trim(StrOr(r.run_id)) IN
    IF runIdRaw # "" /\ runIdRaw # "-" THEN runIdRaw ELSE NULL

\* line 289: r["id"] ? Number(r["id"]) : null, 0 standing for null and NaN alike
\* (both are skipped by line 293)
externalIdOfRow(r) ==
    IF StrOr(r.id) \in DOMAIN DigitStrings THEN DigitStrings[r.id] ELSE 0

\* SkippedRow that lets every legacy row through
SkippedRow_V2Only(r) ==
    isDatasetV2(r)
        /\ (Trim(StrOr(r.partner_name)) = "" \/ Trim(StrOr(r.phone_number)) = "")

\* the `continue` of lines 154-157 and 293-296
SkippedRow(r) ==
    IF isDatasetV2(r)
    THEN Trim(StrOr(r.partner_name)) = "" \/ Trim(StrOr(r.phone_number)) = ""
    ELSE externalIdOfRow(r) = 0 \/ StrOr(r.phone_number) = "" \/ StrOr(r.driver_name) = ""

cityOfRow(r) == IF Trim(StrOr(r.city)) = "" THEN NULL ELSE Trim(r.city)

\* rider.findFirst of lines 190-197: the matching rows no other matching row was
\* updated after
RidersOfRow(rs, r) ==
    LET M == {i \in DOMAIN rs :
                /\ rs[i].driverName = Trim(r.partner_name)
                /\ rs[i].phoneNumber = Trim(r.phone_number)
                /\ cityOfRow(r) # NULL => rs[i].city = cityOfRow(r)}
    IN  {i \in M : \A j \in M : rs[j].updatedAt <= rs[i].updatedAt}

\* lines 199-222: the riders table after the update of row i, or after the create
\* when i = 0
RidersAfterV2(rs, i, r, at) ==
    LET humanRequested == parseBooleanLoose(r.call_human) = "true" IN
    IF i # 0
    THEN [rs EXCEPT ![i] = [@ EXCEPT !.driverName = Trim(r.partner_name),
                                     !.phoneNumber = Trim(r.phone_number),
                                     !.city = cityOfRow(r),
                                     !.humanRequested = humanRequested,
                                     !.updatedAt = at]]
    ELSE Append(rs, [NewRider(RiderIds[Len(rs) + 1], NoInt, Trim(r.partner_name),
                              Trim(r.phone_number), at)
                       EXCEPT !.city = cityOfRow(r),
                              !.humanRequested = humanRequested])

\* lines 327-358: rider.upsert where externalId
RidersAfterLegacy(rs, r, at) ==
    LET i == FindRiderByExternalId(rs, externalIdOfRow(r))
        written(row) ==
            [row EXCEPT !.phoneNumber = r.phone_number,
                        !.driverName = r.driver_name,
                        !.lastContactAt = parseDate(r.last_contact_date),
                        !.lastContactStatus = contactStatusLegacy(r),
                        !.urgentFlag = parseYesNo(r.urgent_flag),
                        !.legalIssueFlag = parseYesNo(r.legal_issue_flag),
                        !.humanRequested = parseYesNo(r.human_requested),
                        !.updatedAt = at]
    IN  IF i # 0
        THEN [rs EXCEPT ![i] = written(@)]
        ELSE Append(rs, written(NewRider(RiderIds[Len(rs) + 1], externalIdOfRow(r),
                                         r.driver_name, r.phone_number, at)))

\* position of the row the legacy upsert returns
RiderOfLegacy(rs, r) ==
    LET i == FindRiderByExternalId(rs, externalIdOfRow(r)) IN
    IF i # 0 THEN i ELSE Len(rs) + 1

\* lines 243-258 and 361-368: the rows existingCall can be (0: null)
ExistingCalls(cs, riderId, r) ==
    IF isDatasetV2(r)
    THEN LET byRun == FindCallByRunId(cs, runIdOfRow(r))
             A == {i \in DOMAIN cs : cs[i].riderId = riderId
                                      /\ cs[i].attempt = parseIntLoose(r.attempt)}
             T == {i \in DOMAIN cs : cs[i].riderId = riderId
                                      /\ cs[i].contactedAt = parseDate(r.timestamp)}
         IN  IF runIdOfRow(r) # NULL /\ byRun # 0 THEN {byRun}
             ELSE IF parseIntLoose(r.attempt) # NoInt /\ A # {} THEN MostRecent(cs, A)
             ELSE IF parseDate(r.timestamp) # NoTime /\ T # {} THEN MostRecent(cs, T)
             ELSE {0}
    ELSE LET L == {i \in DOMAIN cs :
                     /\ cs[i].riderId = riderId
                     /\ cs[i].contactedAt = parseDate(r.last_contact_date)
                     /\ contactStatusLegacy(r) # NULL
                            => cs[i].contactStatus = contactStatusLegacy(r)}
         IN  IF L # {} THEN MostRecent(cs, L) ELSE {0}

\* callData of a dataset-v2 row that keeps the run_id column out of the write
callDataV2_NoRunId(cur, r, at) ==
    [cur EXCEPT !.status = runStatus(contactStatusV2(r)),
                !.contactStatus = contactStatusV2(r),
                !.contactedAt = parseDate(r.timestamp),
                !.summary = IF Trim(StrOr(r.summary)) = "" THEN NULL
                            ELSE Trim(r.summary),
                !.attempt = parseIntLoose(r.attempt),
                !.humanRequested = parseBooleanLoose(r.call_human) = "true",
                !.metadata = Metadata("dataset_v2_import", NoInt, NoSnapshot),
                !.updatedAt = at]

\* lines 228-241: callData of a dataset-v2 row written over the row cur
callDataV2(cur, r, at) ==
    [callDataV2_NoRunId(cur, r, at) EXCEPT !.runId = runIdOfRow(r)]

\* lines 373-386: callData of a legacy row written over the row cur
callDataLegacy(cur, r, at) ==
    [cur EXCEPT !.status = runStatus(contactStatusLegacy(r)),
                !.contactStatus = contactStatusLegacy(r),
                !.contactedAt = parseDate(r.last_contact_date),
                !.transcript = IF StrOr(r.transcript) = "" THEN NULL ELSE r.transcript,
                !.summary = IF StrOr(r.summary) = "" THEN NULL ELSE r.summary,
                !.urgentFlag = parseYesNo(r.urgent_flag),
                !.legalIssueFlag = parseYesNo(r.legal_issue_flag),
                !.humanRequested = parseYesNo(r.human_requested),
                !.metadata = Metadata("csv_import", externalIdOfRow(r), NoSnapshot),
                !.updatedAt = at]

callData(cur, r, at) ==
    IF isDatasetV2(r) THEN callDataV2(cur, r, at) ELSE callDataLegacy(cur, r, at)

\* the runId the write of a row puts in a call (an update of a legacy row keeps
\* the call's own)
WrittenRunId(cs, i, r) ==
    IF isDatasetV2(r) THEN runIdOfRow(r)
    ELSE IF i # 0 THEN cs[i].runId ELSE NULL

\* CallsAfterImport that creates a call also when existingCall was found
CallsAfterImport_AlwaysCreate(cs, i, riderId, r, at) ==
    Append(cs, [callData(NewCall(CallIds[Len(cs) + 1], riderId, at), r, at)
                    EXCEPT !.runId = IF i # 0 THEN NULL ELSE @])

\* lines 260-275 and 388-403: rider_calls after riderCall.update / riderCall.create
CallsAfterImport(cs, i, riderId, r, at) ==
    IF i # 0
    THEN [cs EXCEPT ![i] = callData(@, r, at)]
    ELSE Append(cs, callData(NewCall(CallIds[Len(cs) + 1], riderId, at), r, at))

\* lines 278-286: the rider's last contact, when the v2 row has a timestamp
RidersAfterContact(rs, i, r, at) ==
    IF isDatasetV2(r) /\ parseDate(r.timestamp) # NoTime
    THEN [rs EXCEPT ![i] = [@ EXCEPT !.lastContactAt = parseDate(r.timestamp),
                                     !.lastContactStatus = contactStatusV2(r),
                                     !.updatedAt = at]]
    ELSE rs

\* the early returns of POST /api/riders/import (0: none)
ImportRejection(req) ==
    IF ~req.session THEN 401
    ELSE IF ~req.hasCsv THEN 400
    ELSE 0

\* POST /api/riders/import up to the loop of importFromCsv, in a behaviour of at
\* most max import requests
ImportPostUpTo(req, max) ==
    /\ imp.pc = "idle"
    /\ imp.requests < max
    /\ IF ImportRejection(req) # 0
       THEN /\ imp' = [NoImport EXCEPT !.requests = imp.requests + 1]
            /\ last' = Served("import", NoExtract, clock, 0, 0, ImportRejection(req))
       ELSE /\ imp' = [NoImport EXCEPT
                          !.requests = imp.requests + 1,
                          !.rows = req.csv, !.pc = "row",
                          !.records = req.csv,
                          !.ridersBefore = Len(riders),
                          !.callsBefore = Len(calls),
                          !.again = /\ imp.requests > 0
                                    /\ imp.records = req.csv
                                    /\ last.op = "import" /\ last.response = 200]
            /\ UNCHANGED last
    /\ UNCHANGED <<riders, calls, clock, trig, cb, served, env>>

ImportPost(req) == ImportPostUpTo(req, MaxImports)

\* lines 154-157, 293-296: the row is skipped
ImportSkip ==
    /\ imp.pc = "row" /\ imp.rows # <<>>
    /\ SkippedRow(Head(imp.rows))
    /\ imp' = [imp EXCEPT !.rows = Tail(@), !.skipped = @ + 1]
    /\ UNCHANGED <<riders, calls, clock, trig, cb, last, served, env>>

\* lines 190-223, 327-359: the rider of the row is found, updated or created
ImportRider ==
    LET r == Head(imp.rows) IN
    /\ imp.pc = "row" /\ imp.rows # <<>>
    /\ ~SkippedRow(r)
    /\ IF isDatasetV2(r)
       THEN \E i \in (IF RidersOfRow(riders, r) = {} THEN {0}
                      ELSE RidersOfRow(riders, r)) :
              /\ riders' = RidersAfterV2(riders, i, r, clock)
              /\ imp' = [imp EXCEPT !.pc = "rider",
                                    !.rider = IF i # 0 THEN i ELSE Len(riders) + 1,
                                    !.ridersUpserted = @ + 1]
       ELSE /\ riders' = RidersAfterLegacy(riders, r, clock)
            /\ imp' = [imp EXCEPT !.pc = "rider",
                                  !.rider = RiderOfLegacy(riders, r),
                                  !.ridersUpserted = @ + 1]
    /\ clock' = clock + 1
    /\ UNCHANGED <<calls, trig, cb, last, served, env>>

\* lines 243-258, 361-368: existingCall
ImportFindCall ==
    /\ imp.pc = "rider"
    /\ \E i \in ExistingCalls(calls, riders[imp.rider].id, Head(imp.rows)) :
         imp' = [imp EXCEPT !.pc = "found", !.existingCall = i]
    /\ UNCHANGED <<riders, calls, clock, trig, cb, last, served, env>>

\* lines 260-286, 388-403: the call of the row is updated or created; a write the
\* unique index on run_id refuses throws out of importFromCsv and the request is
\* answered 500 with the rows left unprocessed
ImportWriteCall ==
    LET r == Head(imp.rows)
        i == imp.existingCall
    IN  /\ imp.pc = "found"
        /\ IF RunIdTaken(calls, i, WrittenRunId(calls, i, r))
           THEN /\ imp' = [imp EXCEPT !.pc = "idle", !.rows = <<>>]
                /\ last' = Served("import", NoExtract, clock, i, imp.rider, 500)
                /\ UNCHANGED <<riders, calls>>
           ELSE /\ calls' = CallsAfterImport(calls, i, riders[imp.rider].id, r, clock)
                /\ riders' = RidersAfterContact(riders, imp.rider, r, clock)
                /\ imp' = [imp EXCEPT !.pc = "row", !.rows = Tail(@),
                                      !.callsUpdated = IF i # 0 THEN @ + 1 ELSE @,
                                      !.callsCreated = IF i = 0 THEN @ + 1 ELSE @]
                /\ last' = Served("import-row", NoExtract, clock,
                                  IF i # 0 THEN i ELSE Len(calls) + 1, imp.rider, 0)
        /\ clock' = clock + 1
        /\ UNCHANGED <<trig, cb, served, env>>

\* lines 407, 463-464: every record was processed
ImportDone ==
    /\ imp.pc = "row" /\ imp.rows = <<>>
    /\ imp' = [imp EXCEPT !.pc = "idle"]
    /\ last' = Served("import", NoExtract, clock, 0, 0, 200)
    /\ UNCHANGED <<riders, calls, clock, trig, cb, served, env>>

NoColumns ==
    [partner_name |-> NULL, driver_name |-> NULL, id |-> NULL, phone_number |-> NULL,
     city |-> NULL, call_status |-> NULL, call_human |-> NULL, summary |-> NULL,
     transcript |-> NULL, attempt |-> NULL, run_id |-> NULL, timestamp |-> NULL,
     last_contact_date |-> NULL, urgent_flag |-> NULL, legal_issue_flag |-> NULL,
     human_requested |-> NULL]

V2Row(partner_name, phone_number, call_status, attempt, run_id, timestamp) ==
    [NoColumns EXCEPT !.partner_name = partner_name, !.phone_number = phone_number,
                      !.city = "Madrid", !.call_status = call_status,
                      !.call_human = "no", !.summary = "",
                      !.attempt = attempt, !.run_id = run_id,
                      !.timestamp = timestamp]

LegacyRow(id, driver_name, phone_number, call_status, last_contact_date) ==
    [NoColumns EXCEPT !.id = id, !.driver_name = driver_name,
                      !.phone_number = phone_number, !.call_status = call_status,
                      !.last_contact_date = last_contact_date,
                      !.human_requested = "yes", !.summary = "ok"]

\* dataset-v2 files: an export and the same export after the provider dropped
\* or renumbered the run; a row naming the run another rider's call holds; a row
\* naming the run a trigger may be given, then a row without partner name
V2Files ==
    {<<V2Row("Eva", "+34600555666", "completed", "1", "run_9", "2024-05-01"),
       V2Row("Eva", "+34600555666", "completed", "1", "-", "2024-05-01")>>,
     <<V2Row("Eva", "+34600555666", "voicemail", "-", "run_9", "2024-05-03"),
       V2Row("Eva", "+34600555666", "voicemail", "", "run_8", "2024-05-03")>>,
     <<V2Row("Luis", "+34600333444", "", "2", "run_1", "")>>,
     <<V2Row("Luis", "+34600333444", "pending", "1", "run_2", "2024-05-03"),
       V2Row("", "+34600333444", "pending", "1", "run_2", "")>>}

\* legacy files: an existing rider, a new one and a row without id; the same
\* rider twice under two names
LegacyFiles ==
    {<<LegacyRow("42", "Ana", "+34600111222", "completed", "2024-05-01"),
       LegacyRow("9", "Noa", "+34600555666", "no answer", ""),
       LegacyRow("", "Noa", "+34600555666", "", "")>>,
     <<LegacyRow("42", "Ana Maria", "+34600111222", "completed", "2024-05-01"),
       LegacyRow("42", "Ana", "+34600111222", "completed", "2024-05-01")>>}

\* the files imported beside callbacks and a trigger
ImportFiles == V2Files

\* a request is [session, hasCsv, csv]: csv holds the records of the CSV text,
\* hasCsv is false when the request carries no CSV text
ImportRequests ==
    {[session |-> TRUE, hasCsv |-> TRUE, csv |-> f] : f \in ImportFiles}
        \cup {[session |-> FALSE, hasCsv |-> TRUE, csv |-> <<>>],
              [session |-> TRUE, hasCsv |-> FALSE, csv |-> <<>>],
              [session |-> TRUE, hasCsv |-> TRUE, csv |-> <<>>]}

\* the callbacks that run beside an import: one that names no stored call and
\* creates a call under run_2 for rider r2, one that gives run_2 to the call c2
ImportPayloads ==
    {Body(("call_id" :> Str("c9")) @@ ("run_id" :> Str("run_2"))
              @@ ("external_id" :> Num(7)) @@ ("status" :> Str("completed"))),
     Body(("call_id" :> Str("c2")) @@ ("run_id" :> Str("run_2")))}

\* the store of Init after a trigger for a new rider sent its provider request
ImportStore ==
    [riders |-> UpsertedRiders(InitRiders,
                    [externalId |-> NoInt, driverName |-> "Eva",
                     phoneNumber |-> "+34600555666"], 2),
     calls |-> Append(InitCalls,
                    TriggeredCall("c2", NewRider("r3", NoInt, "Eva", "+34600555666", 2),
                                  "u1", 3))]

InitImport ==
    /\ riders = ImportStore.riders
    /\ calls = ImportStore.calls
    /\ clock = 4
    /\ trig = <<[pc |-> "fetch",
                 data |-> [externalId |-> NoInt, driverName |-> "Eva",
                           phoneNumber |-> "+34600555666"],
                 rider |-> 3, call |-> 2, sent |-> "c2", sentAt |-> 4]>>
    /\ cb = <<>>
    /\ last = Served("init", NoExtract, NoTime, 0, 0, 0)
    /\ served = 0
    /\ imp = NoImport
    /\ env = NoEnv

NextImport ==
    \/ \E req \in ImportRequests : ImportPost(req)
    \/ ImportSkip
    \/ ImportRider
    \/ ImportFindCall
    \/ ImportWriteCall
    \/ ImportDone
    \/ \E anyBody \in ImportPayloads : Callback(anyBody)
    \/ \E t \in DOMAIN trig : TriggerSuccess(t, "run_2")

SpecImport == InitImport /\ [][NextImport]_vars

-----------------------------------------------------------------------------
(* The normalizers of the import and callback paths as pure functions.  A   *)
(* dataset-v2 row has the raw values of its document columns; `last` holds  *)
(* them, then what parseBooleanLoose (import) and asBoolean (callback) make *)
(* of each, then the documentsUploaded derived from the import's flags.     *)

\* deriveDocumentsUploaded with an unknown flag counted as a false one
deriveDocumentsUploaded_UnknownIsFalse(docFlags) ==
    LET trues == Len(SelectSeq(docFlags, LAMBDA v : v = "true")) IN
    IF Len(docFlags) = 0 THEN NULL
    ELSE IF trues = 0 THEN "NO"
    ELSE IF trues = Len(docFlags) THEN "YES"
    ELSE "PARTIAL"

\* lines 128-135; the DocumentsUploaded enum of the code is NO | PARTIAL | YES
deriveDocumentsUploaded(docFlags) ==
    LET vals == SelectSeq(docFlags, LAMBDA v : v # NULL)
        trues == Len(SelectSeq(vals, LAMBDA v : v = "true"))
    IN  IF Len(vals) = 0 THEN NULL
        ELSE IF trues = 0 THEN "NO"
        ELSE IF trues = Len(vals) THEN "YES"
        ELSE "PARTIAL"

\* raw values of a document column or of a flag of a callback payload
RawFlags == {"true", "YES", "t", "F", "0", "-", "", "maybe"}

RawFlagSeqs == UNION {[1..n -> RawFlags] : n \in 0..MaxFlags}

InitNormalize ==
    /\ riders = <<>>
    /\ calls = <<>>
    /\ clock = 1
    /\ trig = <<>>
    /\ cb = <<>>
    /\ \E raw \in RawFlagSeqs :
         last = [op |-> "raw", raw |-> raw, docFlags |-> <<>>, asBooleans |-> <<>>,
                 documentsUploaded |-> NULL]
    /\ served = 0
    /\ imp = NoImport
    /\ env = NoEnv

\* line 159-161 of the import, and asBoolean of the callback on the same strings
ParseFlags ==
    /\ last.op = "raw"
    /\ last' = [last EXCEPT
                   !.op = "flags",
                   !.docFlags = [i \in DOMAIN last.raw |-> parseBooleanLoose(last.raw[i])],
                   !.asBooleans = [i \in DOMAIN last.raw |-> asBoolean(Str(last.raw[i]))]]
    /\ UNCHANGED <<riders, calls, clock, trig, cb, served, imp, env>>

\* line 162 of the import
DeriveDocuments ==
    /\ last.op = "flags"
    /\ last' = [last EXCEPT
                   !.op = "derived",
                   !.documentsUploaded = deriveDocumentsUploaded(last.docFlags)]
    /\ UNCHANGED <<riders, calls, clock, trig, cb, served, imp, env>>

NextNormalize == ParseFlags \/ DeriveDocuments

SpecNormalize == InitNormalize /\ [][NextNormalize]_vars

-----------------------------------------------------------------------------
(* Imports served one after the other, no other request between their      *)
(* statements: files with rows that lack a required field before rows that *)
(* have them all, and files imported a second time.                         *)

\* a v2 row without partner name before a full one; a v2 row with no run_id,
\* attempt or timestamp; a v2 row without phone before a full one; legacy rows
\* without id, name or phone before full ones
RowFiles ==
    {<<V2Row("", "+34600555666", "completed", "1", "run_9", "2024-05-01"),
       V2Row("Eva", "+34600555666", "completed", "1", "run_9", "2024-05-01")>>,
     <<V2Row("Eva", "+34600555666", "", "", "", "")>>,
     <<V2Row("Luis", "", "voicemail", "2", "", "2024-05-03"),
       V2Row("Luis", "+34600333444", "voicemail", "2", "", "2024-05-03")>>,
     <<LegacyRow("", "Noa", "+34600555666", "", ""),
       LegacyRow("42", "Ana", "+34600111222", "completed", "2024-05-01"),
       LegacyRow("9", "Noa", "+34600555666", "no answer", "")>>,
     <<LegacyRow("7", "", "+34600333444", "pending", "2024-05-03"),
       LegacyRow("7", "Luis", "", "pending", "2024-05-03"),
       LegacyRow("7", "Luis", "+34600333444", "pending", "2024-05-03")>>}

RowRequests ==
    {[session |-> TRUE, hasCsv |-> TRUE, csv |-> f] : f \in RowFiles}
        \cup {[session |-> FALSE, hasCsv |-> TRUE, csv |-> <<>>]}

InitRows ==
    /\ riders = InitRiders
    /\ calls = InitCalls
    /\ clock = 4
    /\ trig = <<>>
    /\ cb = <<>>
    /\ last = Served("init", NoExtract, NoTime, 0, 0, 0)
    /\ served = 0
    /\ imp = NoImport
    /\ env = NoEnv

NextRows ==
    \/ \E req \in RowRequests : ImportPostUpTo(req, MaxReimports)
    \/ ImportSkip
    \/ ImportRider
    \/ ImportFindCall
    \/ ImportWriteCall
    \/ ImportDone

SpecRows == InitRows /\ [][NextRows]_vars

-----------------------------------------------------------------------------
(* Legacy imports beside trigger requests: both upsert riders by externalId. *)

RiderTriggers ==
    TriggerRequests
        \cup {[externalId |-> 9, driverName |-> "Noa", phoneNumber |-> "+34600555666"]}

LegacyRequests == {[session |-> TRUE, hasCsv |-> TRUE, csv |-> f] : f \in LegacyFiles}

InitRiderUpserts ==
    /\ riders = InitRiders
    /\ calls = InitCalls
    /\ clock = 2
    /\ trig = <<>>
    /\ cb = <<>>
    /\ last = Served("init", NoExtract, NoTime, 0, 0, 0)
    /\ served = 0
    /\ imp = NoImport
    /\ env = NoEnv

NextRiderUpserts ==
    \/ \E req \in LegacyRequests : ImportPost(req)
    \/ ImportSkip
    \/ ImportRider
    \/ ImportFindCall
    \/ ImportWriteCall
    \/ ImportDone
    \/ \E data \in RiderTriggers : TriggerUpsertRider(data)
    \/ \E t \in DOMAIN trig : TriggerCreateCall(t)

SpecRiderUpserts == InitRiderUpserts /\ [][NextRiderUpserts]_vars

-----------------------------------------------------------------------------
(* A trigger and the callbacks that echo the context of its provider request. *)

\* the provider echoes context.source.rider_call_id of the call the trigger of
\* the model creates (c2; c3 for a second trigger), with the run id of another
\* call, or names the rider by external id
EchoPayloads ==
    {Body(("context.source.rider_call_id" :> Str("c2")) @@ ("run_id" :> Str("run_1"))
              @@ ("status" :> Str("completed"))),
     Body(("context.source.rider_call_id" :> Str("c3")) @@ ("run_id" :> Str("run_2"))),
     Body(("external_id" :> Num(42)) @@ ("contact_status" :> Str("no_answer")))}

InitEcho ==
    /\ riders = InitRiders
    /\ calls = InitCalls
    /\ clock = 2
    /\ trig = <<>>
    /\ cb = <<>>
    /\ last = Served("init", NoExtract, NoTime, 0, 0, 0)
    /\ served = 0
    /\ imp = NoImport
    /\ env = NoEnv

NextEcho ==
    \/ \E anyBody \in EchoPayloads : Callback(anyBody)
    \/ \E data \in TriggerRequests : TriggerUpsertRider(data)
    \/ \E t \in DOMAIN trig : TriggerCreateCall(t)
    \/ \E t \in DOMAIN trig : TriggerFetch(t)
    \/ \E t \in DOMAIN trig : TriggerSuccess(t, "run_2")

SpecEcho == InitEcho /\ [][NextEcho]_vars

-----------------------------------------------------------------------------
(* The pending-contact listing, GET /api/riders/pending.  A request is      *)
(* [session, search]; the response is the ids of the riders listed, in      *)
(* order.  Rows that tie on (urgentFlag, updatedAt) come in either order of *)
(* their positions in the table.                                            *)

\* take: 50
PendingTake == 50

\* driverName contains search, case-insensitively, over the names of the model
NameContains(driverName, search) ==
    search = "ana" /\ driverName \in {"Ana", "Ana Maria"}

\* phoneNumber contains search, over the phone numbers of the model
PhoneContains(phoneNumber, search) ==
    search = "600111" /\ phoneNumber = "+34600111222"

\* lines 24-41: the where of the findMany
PendingWhere(r, search) ==
    /\ r.lastContactStatus \in {NULL, "PENDING"}
    /\ Trim(search) # ""
          => NameContains(r.driverName, Trim(search))
                \/ PhoneContains(r.phoneNumber, Trim(search))

\* orderBy [{urgentFlag: desc}, {updatedAt: desc}]: row i comes before row j
ListedBefore(rs, i, j, tie) ==
    \/ rs[i].urgentFlag /\ ~rs[j].urgentFlag
    \/ /\ rs[i].urgentFlag = rs[j].urgentFlag
       /\ \/ rs[i].updatedAt > rs[j].updatedAt
          \/ rs[i].updatedAt = rs[j].updatedAt
                /\ (IF tie = "asc" THEN i < j ELSE i > j)

RECURSIVE FirstRows(_, _, _, _)
\* the first k rows of M in that order
FirstRows(rs, M, k, tie) ==
    IF M = {} \/ k = 0 THEN <<>>
    ELSE LET f == CHOOSE i \in M : \A j \in M \ {i} : ListedBefore(rs, i, j, tie)
         IN  <<f>> \o FirstRows(rs, M \ {f}, k - 1, tie)

\* lines 43-46: the rows findMany returns
PendingRows(rs, search, tie) ==
    FirstRows(rs, {i \in DOMAIN rs : PendingWhere(rs[i], search)}, PendingTake, tie)

\* GET /api/riders/pending
PendingGet(req) ==
    /\ IF ~req.session
       THEN last' = [op |-> "pending", response |-> 401, search |-> req.search,
                     listing |-> <<>>]
       ELSE \E tie \in {"asc", "desc"} :
              last' = [op |-> "pending", response |-> 200, search |-> req.search,
                       listing |-> PendingRows(riders, req.search, tie)]
    /\ UNCHANGED <<riders, calls, clock, trig, cb, served, imp, env>>

PendingRequests ==
    {[session |-> TRUE, search |-> ""], [session |-> TRUE, search |-> " "],
     [session |-> TRUE, search |-> "ana"], [session |-> TRUE, search |-> "600111"],
     [session |-> FALSE, search |-> ""]}

\* callbacks that report a contact outcome, a status alone or an urgent flag
PendingPayloads ==
    {Body(("call_id" :> Str("c1")) @@ ("contact_status" :> Str("no_answer"))),
     Body(("external_id" :> Num(7)) @@ ("contact_status" :> Str("voicemail"))),
     Body(("call_id" :> Str("c1")) @@ ("status" :> Str("completed"))),
     Body(("external_id" :> Num(7)) @@ ("contact_status" :> Str("pending"))
              @@ ("urgent_flag" :> JBool(TRUE)))}

\* a store of n riders no call was ever made to, created one after the other
UncontactedRiders(n) ==
    [i \in 1..n |-> NewRider("r" \o ToString(i), NoInt, "Ana", "+34600111222", i)]

\* the stores the listing is asked from: the store of Init, and a store with one
\* rider more than the listing takes
PendingStores ==
    {[riders |-> InitRiders, calls |-> InitCalls],
     [riders |-> UncontactedRiders(PendingTake + 1), calls |-> <<>>]}

InitPending ==
    /\ \E st \in PendingStores : riders = st.riders /\ calls = st.calls
    /\ clock = PendingTake + 2
    /\ trig = <<>>
    /\ cb = <<>>
    /\ last = Served("init", NoExtract, NoTime, 0, 0, 0)
    /\ served = 0
    /\ imp = NoImport
    /\ env = NoEnv

NextPending ==
    \/ \E anyBody \in PendingPayloads : Callback(anyBody)
    \/ \E req \in PendingRequests : PendingGet(req)

SpecPending == InitPending /\ [][NextPending]_vars

-----------------------------------------------------------------------------
(* Properties.  A step that serves a callback is one that counts it; after   *)
(* it, `last` holds what was extracted from its payload, its `now`, the row  *)
(* it was merged into and the response.                                      *)

CallbackStep == served' = served + 1

\* a callback answered 200 whose call existed before it
MergeStep ==
    CallbackStep /\ last'.response = 200 /\ last'.call \in DOMAIN calls

\* C1: once a Call's completedAt is non-null, a later callback for the same Call
\* (one carrying a terminal status included) leaves completedAt unchanged.
C1_CompletedAtSetOnce ==
    [][CallbackStep =>
         \A i \in DOMAIN calls :
            calls[i].completedAt # NoTime =>
                calls'[i].completedAt = calls[i].completedAt]_vars

\* C2: a callback naming a recognized status for a Call whose stored status is
\* terminal leaves the status unchanged, sets contactedAt to its now and merges
\* its other non-absent fields.
C2_TerminalStatusKept ==
    [][(MergeStep /\ last'.x.status # NULL
          /\ calls[last'.call].status \in TerminalStatuses) =>
         /\ calls'[last'.call].status = calls[last'.call].status
         /\ calls'[last'.call].contactedAt = last'.now
         /\ (last'.x.summary # NULL =>
                calls'[last'.call].summary = last'.x.summary)]_vars

C4_AbsentFieldsKept ==
    [][(CallbackStep /\ last'.response = 200) =>
         LET x == last'.x
             r == last'.rider
         IN  /\ x.urgentFlag = NULL => riders'[r].urgentFlag = riders[r].urgentFlag
             /\ x.legalIssueFlag = NULL =>
                   riders'[r].legalIssueFlag = riders[r].legalIssueFlag
             /\ x.humanRequested = NULL =>
                   riders'[r].humanRequested = riders[r].humanRequested
             /\ last'.call \in DOMAIN calls =>
                   LET old == calls[last'.call]
                       new == calls'[last'.call]
                   IN  /\ x.urgentFlag = NULL => new.urgentFlag = old.urgentFlag
                       /\ x.legalIssueFlag = NULL =>
                             new.legalIssueFlag = old.legalIssueFlag
                       /\ x.humanRequested = NULL =>
                             new.humanRequested = old.humanRequested
                       /\ x.contactStatus = NULL =>
                             new.contactStatus = old.contactStatus
                       /\ x.summary = NULL => new.summary = old.summary
                       /\ x.transcript = NULL => new.transcript = old.transcript]_vars

\* C4 witness: a callback without the urgent flag and without a summary was merged
\* into a Call whose urgent flag was set and whose summary was recorded
C4_Witness ==
    /\ last.op = "callback" /\ last.response = 200
    /\ last.x.urgentFlag = NULL /\ last.x.summary = NULL
    /\ calls[last.call].urgentFlag /\ riders[last.rider].urgentFlag
    /\ calls[last.call].summary # NULL
    /\ calls[last.call].createdAt < last.now

\* the Calls of a Rider no other Call of that Rider was updated after
LastUpdatedCalls(riderId) ==
    {i \in CallsOf(calls, riderId) :
        \A j \in CallsOf(calls, riderId) : calls[j].updatedAt <= calls[i].updatedAt}

\* C5: after a successfully processed callback, the Rider's projection equals the
\* corresponding fields of that Rider's most recently updated Call.
C5_RiderMirrorsLastCall ==
    (last.op = "callback" /\ last.response = 200) =>
        \A i \in LastUpdatedCalls(riders[last.rider].id) :
            /\ riders[last.rider].lastContactAt = calls[i].contactedAt
            /\ riders[last.rider].lastContactStatus = calls[i].contactStatus
            /\ riders[last.rider].urgentFlag = calls[i].urgentFlag
            /\ riders[last.rider].legalIssueFlag = calls[i].legalIssueFlag
            /\ riders[last.rider].humanRequested = calls[i].humanRequested

\* the final write of a trigger whose request the provider accepted
TriggerResultStep(t) ==
    /\ t \in DOMAIN trig
    /\ trig[t].pc = "fetch" /\ trig'[t].pc = "done"
    /\ last'.op = "trigger" /\ last'.response = 200

\* the last request served was a callback carrying the internal id of the Call
\* of trigger t and a terminal status, merged after the provider request was sent
CallbackSinceFetch(t) ==
    /\ last.op = "callback" /\ last.response = 200
    /\ last.call = trig[t].call
    /\ last.x.riderCallId = trig[t].sent
    /\ terminalStatus(last.x)
    /\ last.now >= trig[t].sentAt

\* C8: when a callback carrying the Call's internal id and a terminal status was
\* processed between the provider's acceptance and the trigger's result write,
\* that write does not move the Call out of its terminal status and does not
\* replace a runId the callback set.
C8_TriggerKeepsCallbackResult ==
    [][\A t \in DOMAIN trig :
          (TriggerResultStep(t) /\ CallbackSinceFetch(t)) =>
             LET old == calls[trig[t].call]
                 new == calls'[trig[t].call]
             IN  /\ new.status = old.status
                 /\ old.runId # NULL => new.runId = old.runId]_vars

\* the Calls a payload's ids name
ById(x) == FindCallById(calls, x.riderCallId)
ByRunId(x) == FindCallByRunId(calls, x.runId)

\* a callback was merged into Call i at this step
MergedInto(i) ==
    /\ last'.response = 200 /\ last'.call = i
    /\ calls'[i].contactedAt = last'.now

\* C10 as claimed: a payload whose call id matches A and whose run id matches
\* another Call B is merged into A and leaves B unchanged; a payload without
\* call id whose run id matches B is merged into B whatever its external id.
C10_PriorityAsClaimed ==
    [][CallbackStep =>
         LET x == last'.x IN
         /\ (x.riderCallId # NULL /\ x.runId # NULL /\ ById(x) # 0
               /\ ByRunId(x) \notin {0, ById(x)}) =>
               /\ MergedInto(ById(x))
               /\ calls'[ByRunId(x)] = calls[ByRunId(x)]
         /\ (x.riderCallId = NULL /\ x.runId # NULL /\ ByRunId(x) # 0) =>
               MergedInto(ByRunId(x))]_vars

\* C10 amended: such a payload is resolved to A and never to B, which stays
\* unchanged; it is merged into A when A already has a (non-empty) run id, and
\* when A has none the write of B's run id to A is refused and nothing changes.
C10_Priority ==
    [][CallbackStep =>
         LET x == last'.x IN
         /\ (x.riderCallId # NULL /\ x.runId # NULL /\ ById(x) # 0
               /\ ByRunId(x) \notin {0, ById(x)}) =>
               /\ last'.call = ById(x)
               /\ calls'[ByRunId(x)] = calls[ByRunId(x)]
               /\ IF ~Falsy(calls[ById(x)].runId)
                  THEN MergedInto(ById(x))
                  ELSE last'.response = 500 /\ calls' = calls /\ riders' = riders
         /\ (x.riderCallId = NULL /\ x.runId # NULL /\ ByRunId(x) # 0) =>
               MergedInto(ByRunId(x))]_vars

\* C10 witness: a payload naming A by call id and B by run id was merged into A
C10_Witness ==
    /\ last.op = "callback" /\ last.response = 200
    /\ last.x.riderCallId # NULL /\ last.x.runId # NULL
    /\ last.call = FindCallById(calls, last.x.riderCallId)
    /\ FindCallByRunId(calls, last.x.runId) \notin {0, last.call}
    /\ calls[last.call].contactedAt = last.now

-----------------------------------------------------------------------------
(* Properties of concurrent callbacks and of a stopped trigger. *)

\* the outcome of one callback served alone from the tables st
Alone(st, x, now) ==
    LET target == CHOOSE t \in Resolutions(st.riders, st.calls, x) : TRUE
        existing == ExistingRow(st.riders, st.calls, target, x, now)
    IN  IF target.kind = "none" \/ TxThrows(st.calls, target, existing, x)
        THEN st
        ELSE [riders |-> CommittedRiders(st.riders, st.calls, target, x, now, now),
              calls |-> CommittedCalls(st.riders, st.calls, target, existing,
                                       x, now, now)]

\* status, metadata and flags of the Calls, projection of the Riders
Outcome(st) ==
    [calls |-> [i \in DOMAIN st.calls |->
                   [status |-> st.calls[i].status,
                    metadata |-> st.calls[i].metadata,
                    urgentFlag |-> st.calls[i].urgentFlag,
                    legalIssueFlag |-> st.calls[i].legalIssueFlag,
                    humanRequested |-> st.calls[i].humanRequested]],
     riders |-> [i \in DOMAIN st.riders |->
                   [lastContactAt |-> st.riders[i].lastContactAt,
                    lastContactStatus |-> st.riders[i].lastContactStatus,
                    urgentFlag |-> st.riders[i].urgentFlag,
                    legalIssueFlag |-> st.riders[i].legalIssueFlag,
                    humanRequested |-> st.riders[i].humanRequested]]]

ConcStore == [riders |-> InitRiders, calls |-> ConcCalls]

\* both callbacks have been merged, into the same Call
BothMerged(j, k) ==
    /\ j # k
    /\ cb[j].pc = "done" /\ cb[j].response = 200
    /\ cb[k].pc = "done" /\ cb[k].response = 200
    /\ cb[j].target.call = cb[k].target.call

\* C6: two concurrent callbacks for the same Call leave the Call's status,
\* metadata and flags and the Rider's projection as one of the two serial orders
\* of the two callbacks would.
C6_Serializable ==
    \A j, k \in DOMAIN cb :
        BothMerged(j, k) =>
            Outcome([riders |-> riders, calls |-> calls]) \in
                {Outcome(Alone(Alone(ConcStore, cb[j].x, cb[j].now),
                               cb[k].x, cb[k].now)),
                 Outcome(Alone(Alone(ConcStore, cb[k].x, cb[k].now),
                               cb[j].x, cb[j].now))}

\* C7: when two callbacks resolved to the same Call by its internal id both read
\* a null runId and carry different run ids, the Call ends with the run id of the
\* one that wrote first.
C7_FirstRunIdStays ==
    \A j, k \in DOMAIN cb :
        (/\ BothMerged(j, k)
         /\ cb[j].x.riderCallId # NULL /\ cb[k].x.riderCallId # NULL
         /\ cb[j].existing.runId = NULL /\ cb[k].existing.runId = NULL
         /\ cb[j].x.runId # NULL /\ cb[k].x.runId # NULL
         /\ cb[j].x.runId # cb[k].x.runId
         /\ cb[j].order < cb[k].order) =>
            calls[cb[j].target.call].runId = cb[j].x.runId

\* C9: the writes of one trigger request to the Rider and to the Call are
\* persisted together: a request whose process stopped has left its Rider write
\* only if it has also left its Call.
C9_TriggerWritesTogether ==
    \A t \in DOMAIN trig :
        trig[t].pc = "crashed" => (trig[t].rider # 0 => trig[t].call # 0)

-----------------------------------------------------------------------------
(* Properties of correlation. *)

\* the Rider a payload's external id names (0: none)
ByExternalId(x) ==
    IF x.externalId = NoInt THEN 0 ELSE FindRiderByExternalId(riders, x.externalId)

\* status PENDING or RUNNING, or contact outcome null or PENDING
Qualifies(c) ==
    c.status \in {"PENDING", "RUNNING"} \/ c.contactStatus \in {NULL, "PENDING"}

\* C11: each resolution step is attempted when the previous one found no record:
\* a callback whose call id matches no Call and whose run id matches Call C is
\* resolved to C; a callback whose call id and run id match nothing and whose
\* external id matches a Rider is resolved through that Rider.
C11_NextStepOnNoRecord ==
    [][CallbackStep =>
         LET x == last'.x IN
         /\ (x.riderCallId # NULL /\ ById(x) = 0 /\ x.runId # NULL /\ ByRunId(x) # 0) =>
               last'.call = ByRunId(x)
         /\ (x.riderCallId # NULL /\ ById(x) = 0 /\ x.runId # NULL /\ ByRunId(x) = 0
               /\ ByExternalId(x) # 0) =>
               /\ last'.response = 200
               /\ last'.rider = ByExternalId(x)]_vars

\* C12: a callback resolved by external id to a Rider that has Calls is merged
\* into a Call of that Rider; when some Call of the Rider qualifies it is a
\* qualifying one that no qualifying Call of the Rider is newer than (also when a
\* non-qualifying Call is newer), and when none qualifies it is one that no Call
\* of the Rider is newer than.
C12_ExternalChoice ==
    [][CallbackStep =>
         LET x == last'.x
             r == ByExternalId(x)
         IN  (FindByWhere(calls, x) = 0 /\ x.externalId # 0 /\ r # 0
                /\ CallsOf(calls, riders[r].id) # {}) =>
               LET mine == CallsOf(calls, riders[r].id)
                   i == last'.call
               IN  /\ last'.response = 200
                   /\ i \in mine
                   /\ Len(calls') = Len(calls)
                   /\ calls'[i].contactedAt = last'.now
                   /\ IF \E j \in mine : Qualifies(calls[j])
                      THEN /\ Qualifies(calls[i])
                           /\ \A j \in mine : Qualifies(calls[j]) =>
                                  calls[j].createdAt <= calls[i].createdAt
                      ELSE \A j \in mine : calls[j].createdAt <= calls[i].createdAt]_vars

\* C12 witness: a callback naming a Rider by external id alone was merged into a
\* Call of that Rider although the Rider has a newer Call, one whose status is
\* terminal and whose contact outcome is recorded
C12_Witness ==
    /\ last.op = "callback" /\ last.response = 200
    /\ last.x.riderCallId = NULL /\ last.x.runId = NULL /\ last.x.externalId = 42
    /\ calls[last.call].contactedAt = last.now
    /\ \E j \in CallsOf(calls, calls[last.call].riderId) :
          /\ calls[j].createdAt > calls[last.call].createdAt
          /\ ~Qualifies(calls[j])
          /\ calls[j].updatedAt < last.now

\* C13: a callback carrying only an external id that matches a Rider with no
\* Calls creates exactly one Call, of that Rider, with the payload's contact
\* outcome (COMPLETED by default), the payload's status (COMPLETED by default)
\* and contactedAt = now; the other Calls stay and no Rider is created.
C13_CreatesOneCall ==
    [][CallbackStep =>
         LET x == last'.x
             r == ByExternalId(x)
         IN  (x.riderCallId = NULL /\ x.runId = NULL /\ r # 0
                /\ CallsOf(calls, riders[r].id) = {}) =>
               /\ last'.response = 200
               /\ Len(calls') = Len(calls) + 1
               /\ \A i \in DOMAIN calls : calls'[i] = calls[i]
               /\ LET new == calls'[Len(calls')] IN
                     /\ new.riderId = riders[r].id
                     /\ new.contactStatus =
                           (IF x.contactStatus # NULL THEN x.contactStatus
                                                     ELSE "COMPLETED")
                     /\ new.status = (IF x.status # NULL THEN x.status ELSE "COMPLETED")
                     /\ new.contactedAt = last'.now
               /\ Len(riders') = Len(riders)
               /\ \A q \in DOMAIN riders : riders'[q].id = riders[q].id]_vars

\* C13 witness: a callback with the bare string number under context and neither
\* status nor outcome created the only Call of rider r2
C13_Witness ==
    /\ last.op = "callback" /\ last.response = 200
    /\ last.x.riderCallId = NULL /\ last.x.runId = NULL /\ last.x.externalId = 7
    /\ last.x.status = NULL /\ last.x.contactStatus = NULL
    /\ calls[last.call].createdAt = last.now
    /\ calls[last.call].status = "COMPLETED"
    /\ CallsOf(calls, "r2") = {last.call}

CarriesIdentifier(anyBody) ==
    \/ \E k \in {"context.source.rider_call_id", "context.source.call_id", "call_id",
                  "callId", "metadata.callId", "run_id", "runId", "id"} :
          asString(anyBody[k]) # NULL
    \/ \E k \in {"external_id", "externalId", "context.external_id",
                  "context.externalId", "context"} :
          asInt(anyBody[k]) # NoInt

\* C15: a payload carrying none of the three identifier kinds is answered with
\* the missing-correlation-id error and changes nothing; a payload carrying an
\* identifier of any kind, any numeric external id included, is not answered
\* with that error.
C15_RejectedOnlyWithoutId ==
    [][\A anyBody \in ExternalPayloads :
          Callback(anyBody) =>
             IF CarriesIdentifier(anyBody)
             THEN last'.response # 400
             ELSE last'.response = 400 /\ calls' = calls /\ riders' = riders]_vars

\* C16: from one store state, one payload has one resolution: the same Call, the
\* same creation or the same not-found outcome, whichever run makes the lookups.
C16_OneResolution ==
    \A anyBody \in ExternalPayloads :
        Cardinality(Resolutions(riders, calls, Extract(anyBody))) = 1

-----------------------------------------------------------------------------
(* Properties of the merge and of the Call's lifecycle. *)

\* C17: every callback answered 200 sets the resolved Call's contactedAt and its
\* parent Rider's lastContactAt to the callback's now, also when the payload
\* carries no status, outcome, summary, transcript or flag.
C17_TimestampPropagates ==
    [][(CallbackStep /\ last'.response = 200) =>
         /\ calls'[last'.call].contactedAt = last'.now
         /\ riders'[last'.rider].id = calls'[last'.call].riderId
         /\ riders'[last'.rider].lastContactAt = last'.now]_vars

\* C17 witness: a callback carrying identifiers only was merged into a Call that
\* existed before it
C17_Witness ==
    /\ last.op = "callback" /\ last.response = 200
    /\ last.x.status = NULL /\ last.x.contactStatus = NULL
    /\ last.x.summary = NULL /\ last.x.transcript = NULL
    /\ last.x.urgentFlag = NULL /\ last.x.legalIssueFlag = NULL
    /\ last.x.humanRequested = NULL
    /\ calls[last.call].createdAt < last.now
    /\ calls[last.call].contactedAt = last.now
    /\ riders[last.rider].lastContactAt = last.now

\* the field of workflowResult after a merge: the payload's value when it has
\* one, else the stored value
KeptOrSupplied(new, old, supplied) ==
    new = (IF supplied # NULL THEN supplied ELSE old)

\* C18: a callback merge keeps the metadata keys other than workflowResult and
\* happyrobotCallback, and inside workflowResult keeps each stored field the
\* payload does not supply, overwriting only those it supplies and the
\* last-callback timestamp.
C18_MetadataMerge ==
    [][MergeStep =>
         LET x == last'.x
             old == calls[last'.call].metadata
             new == calls'[last'.call].metadata
         IN  /\ new.source = old.source
             /\ new.externalId = old.externalId
             /\ new.riderSnapshot = old.riderSnapshot
             /\ KeptOrSupplied(new.workflowResult.summary,
                               old.workflowResult.summary, x.summary)
             /\ KeptOrSupplied(new.workflowResult.transcript,
                               old.workflowResult.transcript, x.transcript)
             /\ KeptOrSupplied(new.workflowResult.contactStatus,
                               old.workflowResult.contactStatus, x.contactStatus)
             /\ KeptOrSupplied(new.workflowResult.urgentFlag,
                               old.workflowResult.urgentFlag, x.urgentFlag)
             /\ KeptOrSupplied(new.workflowResult.legalIssueFlag,
                               old.workflowResult.legalIssueFlag, x.legalIssueFlag)
             /\ KeptOrSupplied(new.workflowResult.humanRequested,
                               old.workflowResult.humanRequested, x.humanRequested)
             /\ new.workflowResult.lastCallbackAt = last'.now]_vars

\* C18 witness: a callback without summary and without urgent flag was merged
\* into a Call whose metadata held the trigger's keys and, from an earlier
\* callback, a summary and an urgent flag
C18_Witness ==
    /\ last.op = "callback" /\ last.response = 200
    /\ last.x.summary = NULL /\ last.x.urgentFlag = NULL
    /\ last.x.transcript # NULL
    /\ calls[last.call].metadata.source = "uber-rider-onboarding"
    /\ calls[last.call].metadata.workflowResult.summary # NULL
    /\ calls[last.call].metadata.workflowResult.urgentFlag # NULL
    /\ calls[last.call].metadata.workflowResult.transcript = last.x.transcript
    /\ calls[last.call].metadata.workflowResult.lastCallbackAt = last.now

\* C19: a Call's status leaves PENDING only to RUNNING or FAILED and leaves
\* RUNNING only to COMPLETED, FAILED or CANCELED.
C19_StatusTransitions ==
    [][\A i \in DOMAIN calls :
          /\ calls[i].status = "PENDING" =>
                calls'[i].status \in {"PENDING", "RUNNING", "FAILED"}
          /\ calls[i].status = "RUNNING" =>
                calls'[i].status \in {"RUNNING", "COMPLETED", "FAILED", "CANCELED"}]_vars

\* C20: in every reachable state a Call whose status is COMPLETED, FAILED or
\* CANCELED has a non-null completedAt.
C20_TerminalHasCompletedAt ==
    \A i \in DOMAIN calls :
        calls[i].status \in TerminalStatuses => calls[i].completedAt # NoTime

-----------------------------------------------------------------------------
(* Properties of the trigger handler. *)

\* a step of a trigger up to the creation of its Call: an accepted request
\* leaves a Rider holding its fields (the one that had its external id, else a
\* new one) and no Call yet; the Call is created once, PENDING, with null runId,
\* for that Rider
TriggerCreates ==
    /\ \A req \in TriggerPosts :
          (TriggerPost(req) /\ req.session /\ Len(trig') = Len(trig) + 1) =>
             LET r == trig'[Len(trig')].rider
                 had == IF req.body.externalId = NoInt THEN 0
                        ELSE FindRiderByExternalId(riders, req.body.externalId)
             IN  /\ riders'[r].externalId = req.body.externalId
                 /\ riders'[r].driverName = req.body.driverName
                 /\ riders'[r].phoneNumber = req.body.phoneNumber
                 /\ IF had # 0
                    THEN r = had /\ Len(riders') = Len(riders)
                    ELSE r = Len(riders) + 1 /\ Len(riders') = Len(riders) + 1
                 /\ calls' = calls
    /\ Len(calls') - Len(calls) =
           Cardinality({t \in DOMAIN trig :
                           trig[t].pc = "rider" /\ trig'[t].pc = "call"})
    /\ \A t \in DOMAIN trig :
          (trig[t].pc = "rider" /\ trig'[t].pc = "call") =>
             LET new == calls'[trig'[t].call] IN
             /\ trig'[t].call = Len(calls) + 1
             /\ new.status = "PENDING"
             /\ new.runId = NULL
             /\ new.riderId = riders[trig[t].rider].id
             /\ \A i \in DOMAIN calls : calls'[i] = calls[i]

TriggerFailureStep(t) == TriggerProviderError(t) \/ TriggerException(t)

\* C26: when the provider answers non-success or the request fails in
\* transport, the Call ends FAILED with an error message, every Rider and Call
\* stays in the store, the caller is answered with a failure, and the request to
\* the provider, once sent, is not sent again.
C26_ProviderFailure ==
    [][\A t \in DOMAIN trig :
          /\ TriggerFailureStep(t) =>
                /\ calls'[trig[t].call].status = "FAILED"
                /\ calls'[trig[t].call].errorMsg # NULL
                /\ riders' = riders
                /\ Len(calls') = Len(calls)
                /\ \A i \in DOMAIN calls : calls'[i].id = calls[i].id
                /\ last'.op = "trigger" /\ last'.response = 500
          /\ trig[t].sent # NULL =>
                /\ trig'[t].sent = trig[t].sent
                /\ trig'[t].sentAt = trig[t].sentAt
                /\ trig'[t].pc \in {"fetch", "done"}
          /\ trig[t].pc = "done" => trig'[t] = trig[t]]_vars

\* C26 witness: a trigger has ended after a non-success answer of the provider
C26_Witness ==
    \E t \in DOMAIN trig :
        /\ trig[t].pc = "done" /\ trig[t].sent # NULL
        /\ calls[trig[t].call].status = "FAILED"
        /\ calls[trig[t].call].errorMsg = "HappyRobot API error"
        /\ last.op = "trigger" /\ last.response = 500

\* the request has no session or fails validation: missing name, phone number
\* not starting with + and a digit, non-positive external id, unparseable date
InvalidTrigger(req) ==
    \/ ~req.session
    \/ req.body.driverName \in {NULL, ""}
    \/ req.body.phoneNumber = NULL
    \/ ~StartsWithPlusDigit[req.body.phoneNumber]
    \/ req.body.externalId # NoInt /\ req.body.externalId <= 0
    \/ req.body.signUpDate # NULL /\ ~ParsesAsDate[req.body.signUpDate]

\* C27: a trigger request without session or failing validation is rejected
\* without creating or modifying a Rider or a Call and without a request to the
\* provider being started.
C27_InvalidTriggerRejected ==
    [][\A req \in TriggerPosts :
          (TriggerPost(req) /\ InvalidTrigger(req)) =>
             /\ last'.op = "trigger" /\ last'.response \in {400, 401}
             /\ riders' = riders
             /\ calls' = calls
             /\ trig' = trig]_vars

\* C27 witness: a request was rejected for its validation while no trigger had
\* written anything
C27_Witness ==
    /\ last.op = "trigger" /\ last.response = 400
    /\ trig = <<>>
    /\ \E st \in TriggerStores : riders = st.riders /\ calls = st.calls

-----------------------------------------------------------------------------
(* Properties of the callback handler's head and of its merge. *)

\* the request presents no secret, or one that is not the configured secret
WrongOrNoSecret(req) ==
    \/ req.secret = NULL /\ req.altSecret = NULL
    \/ req.secret # NULL /\ req.secret # env.callbackSecret
    \/ req.secret = NULL /\ req.altSecret # env.callbackSecret

\* C28: with a callback secret configured, a callback whose secret header is
\* missing or different is answered 401 and changes no Rider or Call, whatever
\* its payload; with none configured, a callback without secret header is
\* processed.
C28_SecretCheck ==
    [][\A req \in SecretRequests :
          CallbackPost(req) =>
             /\ (env.callbackSecret # NULL /\ WrongOrNoSecret(req)) =>
                   /\ last'.response = 401
                   /\ riders' = riders
                   /\ calls' = calls
             /\ (env.callbackSecret = NULL /\ req.secret = NULL
                   /\ req.altSecret = NULL /\ req.json) =>
                   /\ last'.response = 200
                   /\ last'.x = Extract(req.body)
                   /\ calls'[last'.call].contactedAt = last'.now]_vars

\* C28 witness: under a configured secret a callback was answered 401 and the
\* store is as it was
C28_Witness ==
    /\ env.callbackSecret = "s3cret"
    /\ last.op = "callback" /\ last.response = 401
    /\ riders = InitRiders /\ calls = InitCalls

\* C29: a callback whose status is absent or not a recognized value leaves the
\* resolved Call's status and completedAt as they were, and still merges the
\* fields it carries.
C29_UnrecognizedStatusKept ==
    [][(MergeStep /\ last'.x.status = NULL) =>
         LET x == last'.x
             old == calls[last'.call]
             new == calls'[last'.call]
         IN  /\ new.status = old.status
             /\ new.completedAt = old.completedAt
             /\ x.contactStatus # NULL => new.contactStatus = x.contactStatus
             /\ x.summary # NULL => new.summary = x.summary
             /\ x.transcript # NULL => new.transcript = x.transcript
             /\ x.urgentFlag # NULL => new.urgentFlag = BoolOf(x.urgentFlag)
             /\ x.legalIssueFlag # NULL => new.legalIssueFlag = BoolOf(x.legalIssueFlag)
             /\ x.humanRequested # NULL => new.humanRequested = BoolOf(x.humanRequested)
             /\ new.contactedAt = last'.now]_vars

\* C29 witness: the payload with status "done" (not a status), urgent_flag 0 and
\* human_requested "yes" was merged into a RUNNING Call, which is RUNNING still
C29_Witness ==
    /\ last.op = "callback" /\ last.response = 200
    /\ last.x.status = NULL
    /\ last.x.urgentFlag = "false" /\ last.x.humanRequested = "true"
    /\ calls[last.call].createdAt < last.now
    /\ calls[last.call].status = "RUNNING"
    /\ calls[last.call].completedAt = NoTime
    /\ calls[last.call].humanRequested
    /\ calls[last.call].contactedAt = last.now

\* C30: a callback resolved through the external-id step is merged into a Call
\* (selected or created) of the Rider whose externalId is the payload's, that
\* Rider's projection is the one updated, and no other Call and no other Rider
\* is modified.
C30_SameRider ==
    [][CallbackStep =>
         LET x == last'.x
             r == ByExternalId(x)
         IN  (FindByWhere(calls, x) = 0 /\ x.externalId # 0 /\ r # 0) =>
               IF last'.response = 200
               THEN LET i == last'.call IN
                    /\ calls'[i].riderId = riders[r].id
                    /\ riders[r].externalId = x.externalId
                    /\ last'.rider = r
                    /\ riders'[r].lastContactAt = last'.now
                    /\ \A j \in DOMAIN calls : j # i => calls'[j] = calls[j]
                    /\ \A q \in DOMAIN riders : q # r => riders'[q] = riders[q]
                    /\ Len(riders') = Len(riders)
               ELSE calls' = calls /\ riders' = riders]_vars

\* C30 witness: a callback naming external id 7 alone created the Call of rider
\* r2 while rider r1 has Calls of its own
C30_Witness ==
    /\ last.op = "callback" /\ last.response = 200
    /\ last.x.riderCallId = NULL /\ last.x.runId = NULL /\ last.x.externalId = 7
    /\ riders[last.rider].externalId = 7
    /\ calls[last.call].riderId = riders[last.rider].id
    /\ CallsOf(calls, "r1") # {}
    /\ riders[1].lastContactAt < last.now

\* C21: in every reachable state a Call whose status is RUNNING has a non-null
\* runId.
C21_RunningHasRunId ==
    \A i \in DOMAIN calls : calls[i].status = "RUNNING" => calls[i].runId # NULL

\* the runId column of every call
RunIds(cs) == [i \in DOMAIN cs |-> cs[i].runId]

\* another call than i holds the run identifier
HeldByAnother(cs, i, runId) ==
    runId # NULL /\ \E j \in DOMAIN cs : j # i /\ cs[j].runId = runId

\* C22: in every reachable state no two Calls share a non-null runId; a trigger
\* result write, a callback merge or create, or an import row write that would
\* give a Call a run identifier another Call holds fails (500) and leaves the
\* runId of every Call as it was.
C22_RunIdUnique ==
    /\ [](\A i, j \in DOMAIN calls :
            i # j /\ calls[i].runId # NULL => calls[i].runId # calls[j].runId)
    /\ [][/\ \A t \in DOMAIN trig :
               (/\ TriggerSuccess(t, "run_2")
                /\ HeldByAnother(calls, trig[t].call, "run_2"))
                   => last'.response = 500 /\ RunIds(calls') = RunIds(calls)
          /\ (/\ ImportWriteCall
              /\ isDatasetV2(Head(imp.rows))
              /\ HeldByAnother(calls, imp.existingCall, runIdOfRow(Head(imp.rows))))
                 => last'.response = 500 /\ RunIds(calls') = RunIds(calls)
          /\ \A anyBody \in ImportPayloads :
               (/\ Callback(anyBody)
                /\ last'.response # 404
                /\ last'.call = 0 \/ last'.call \notin DOMAIN calls
                        \/ calls[last'.call].runId = NULL
                /\ HeldByAnother(calls, last'.call, Extract(anyBody).runId))
                   => last'.response = 500 /\ RunIds(calls') = RunIds(calls)]_vars

\* an import row naming run_2 was refused: another call took run_2 between the
\* lookup and the write
C22_Witness ==
    /\ last.op = "import" /\ last.response = 500
    /\ \E j \in DOMAIN calls : calls[j].runId = "run_2"
    /\ imp.ridersUpserted > 0

\* C23: in every reachable state no two Riders share a non-null externalId; a
\* trigger request or legacy import row whose externalId belongs to a Rider
\* updates that Rider and creates none, whatever the order the requests'
\* statements are served in.
C23_ExternalIdUnique ==
    /\ [](\A i, j \in DOMAIN riders :
            i # j /\ riders[i].externalId # NoInt
                => riders[i].externalId # riders[j].externalId)
    /\ [][/\ \A data \in RiderTriggers : \A i \in DOMAIN riders :
               (/\ TriggerUpsertRider(data)
                /\ data.externalId # NoInt
                /\ riders[i].externalId = data.externalId)
                   => /\ Len(riders') = Len(riders)
                      /\ riders'[i].driverName = data.driverName
                      /\ riders'[i].phoneNumber = data.phoneNumber
                      /\ trig'[Len(trig')].rider = i
          /\ \A i \in DOMAIN riders :
               (/\ ImportRider
                /\ ~isDatasetV2(Head(imp.rows))
                /\ riders[i].externalId = externalIdOfRow(Head(imp.rows)))
                   => /\ Len(riders') = Len(riders)
                      /\ riders'[i].driverName = Head(imp.rows).driver_name
                      /\ imp'.rider = i]_vars

\* a legacy row and a trigger request both naming external id 42 were served,
\* the trigger between the rider statement and the call lookup of the row, and
\* the store still has its two riders
C23_Witness ==
    /\ Len(riders) = 2
    /\ imp.pc = "rider" /\ imp.rider = 1
    /\ Len(trig) = 1 /\ trig[1].rider = 1 /\ trig[1].sentAt = NoTime
    /\ riders[1].lastContactStatus = "COMPLETED"
    /\ riders[1].updatedAt > riders[1].createdAt

\* C24: a Call's runId, once non-null, is never changed and never reset to null
\* by a trigger, callback or import step.
C24_RunIdImmutable ==
    [][\A i \in DOMAIN calls :
          calls[i].runId # NULL
              => i \in DOMAIN calls' /\ calls'[i].runId = calls[i].runId]_vars

C32_EchoResolves ==
    /\ [](\A t \in DOMAIN trig :
            trig[t].sent # NULL
                => /\ trig[t].call \in DOMAIN calls
                   /\ calls[trig[t].call].id = trig[t].sent
                   /\ \A j \in DOMAIN calls :
                        calls[j].id = trig[t].sent => j = trig[t].call)
    /\ [][/\ \A t \in DOMAIN trig :
               TriggerCreateCall(t)
                   => /\ trig[t].sent = NULL
                      /\ calls'[trig'[t].call].status = "PENDING"
          /\ \A t \in DOMAIN trig :
               TriggerFetch(t) => trig'[t].sent = calls[trig[t].call].id
          /\ \A t \in DOMAIN trig : \A anyBody \in EchoPayloads :
               (/\ Callback(anyBody)
                /\ trig[t].sent # NULL
                /\ anyBody["context.source.rider_call_id"] = Str(trig[t].sent))
                   => /\ last'.call = trig[t].call
                      /\ last'.response \in {200, 500}
                      /\ \A j \in DOMAIN calls :
                           j # trig[t].call => calls'[j] = calls[j]]_vars

\* the provider echoed c2 together with the run id of c1, and the callback was
\* merged into c2, the call the trigger created and named in its request
C32_Witness ==
    /\ Len(trig) = 1 /\ trig[1].sent = "c2" /\ trig[1].call = 2
    /\ last.op = "callback" /\ last.response = 200 /\ last.call = 2
    /\ last.x.riderCallId = "c2" /\ last.x.runId = "run_1"
    /\ calls[2].status = "COMPLETED"
    /\ calls[1].status = "RUNNING"

\* the positions of the flags known to be true, to be false
KnownTrue(docFlags) == {i \in DOMAIN docFlags : docFlags[i] = "true"}
KnownFalse(docFlags) == {i \in DOMAIN docFlags : docFlags[i] = "false"}

\* C33: the documentsUploaded derived from per-document flags is absent when no
\* flag is known, the all-false value (NO) when every known flag is false, the
\* all-true value (YES) when every known flag is true, PARTIAL when the known
\* flags are mixed; unknown flags do not count.
C33_DocumentsAggregation ==
    last.op = "derived" =>
        LET t == KnownTrue(last.docFlags)
            f == KnownFalse(last.docFlags)
        IN  /\ (t = {} /\ f = {}) <=> last.documentsUploaded = NULL
            /\ (t = {} /\ f # {}) <=> last.documentsUploaded = "NO"
            /\ (t # {} /\ f = {}) <=> last.documentsUploaded = "YES"
            /\ (t # {} /\ f # {}) <=> last.documentsUploaded = "PARTIAL"

\* flags [true, unknown, true] were derived to YES: the unknown flag did not count
C33_Witness ==
    /\ last.op = "derived"
    /\ last.docFlags = <<"true", NULL, "true">>
    /\ last.documentsUploaded = "YES"

\* C34: parseBooleanLoose of the import and asBoolean of the callback both map,
\* whatever the case, true/yes/y/1/t to true and false/no/n/0/f to false, every
\* other string to absent, and agree on every string.
C34_LooseBoolean ==
    last.op # "raw" =>
        \A i \in DOMAIN last.raw :
            LET s == ToLowerCase(last.raw[i])
                expected == IF s \in {"true", "yes", "y", "1", "t"} THEN "true"
                            ELSE IF s \in {"false", "no", "n", "0", "f"} THEN "false"
                            ELSE NULL
            IN  /\ last.docFlags[i] = expected
                /\ last.asBooleans[i] = expected

\* the row has no value in a column its schema requires
LacksRequired(r) ==
    IF r.partner_name # NULL
    THEN r.partner_name = "" \/ r.phone_number \in {NULL, ""}
    ELSE r.id \in {NULL, ""} \/ r.phone_number \in {NULL, ""}
            \/ r.driver_name \in {NULL, ""}

\* the import is at the head of its loop with a row to process
AtRow == imp.pc = "row" /\ imp.rows # <<>>

\* C35: an import row lacking a required field (name or phone in dataset v2;
\* external id, phone or name in the legacy schema) is counted as skipped, changes
\* no Rider and no Call, and the rows after it are still to be processed.
C35_LackingRowSkipped ==
    [][(AtRow /\ LacksRequired(Head(imp.rows)) /\ imp' # imp)
          => /\ imp'.skipped = imp.skipped + 1
             /\ imp'.ridersUpserted = imp.ridersUpserted
             /\ imp'.callsCreated = imp.callsCreated
             /\ imp'.callsUpdated = imp.callsUpdated
             /\ riders' = riders /\ calls' = calls
             /\ imp'.rows = Tail(imp.rows) /\ imp'.pc = "row"]_vars

\* the legacy file whose first two rows lack name and phone was imported to its
\* end: two rows skipped, the third updated rider r2 and created its call
C35_Witness ==
    /\ last.op = "import" /\ last.response = 200
    /\ imp.pc = "idle" /\ imp.skipped = 2 /\ imp.ridersUpserted = 1
    /\ imp.callsCreated = 1
    /\ riders[2].lastContactStatus = "PENDING"
    /\ \E i \in DOMAIN calls : calls[i].riderId = "r2"

\* the positions where two tables differ, a position of the longer one included
Changed(old, new) ==
    {i \in DOMAIN new : i \notin DOMAIN old \/ new[i] # old[i]}

\* C39: when an import returns, ridersUpserted + skipped is the number of records
\* and callsCreated + callsUpdated is ridersUpserted; a row that is not skipped
\* creates or updates one Rider and one Call.
C39_ImportCounters ==
    /\ []((imp.pc = "idle" /\ last.op = "import" /\ last.response = 200)
            => /\ imp.ridersUpserted + imp.skipped = Len(imp.records)
               /\ imp.callsCreated + imp.callsUpdated = imp.ridersUpserted)
    /\ [][/\ (AtRow /\ imp'.pc = "rider")
               => /\ Changed(riders, riders') = {imp'.rider}
                  /\ Len(riders') \in {Len(riders), Len(riders) + 1}
                  /\ imp'.ridersUpserted = imp.ridersUpserted + 1
                  /\ calls' = calls
          /\ (imp.pc = "found" /\ imp'.pc = "row")
               => /\ Cardinality(Changed(calls, calls')) = 1
                  /\ Len(calls') = Len(calls) + (IF imp.existingCall = 0 THEN 1 ELSE 0)
                  /\ imp.existingCall # 0 => Changed(calls, calls') = {imp.existingCall}
                  /\ imp'.callsCreated + imp'.callsUpdated
                        = imp.callsCreated + imp.callsUpdated + 1
                  /\ Changed(riders, riders') \subseteq {imp.rider}
                  /\ Len(riders') = Len(riders)]_vars

\* the legacy file of three records returned: one row skipped, two riders
\* upserted, one call created for them and one updated on the second import
C39_Witness ==
    /\ imp.pc = "idle" /\ last.op = "import" /\ last.response = 200
    /\ Len(imp.records) = 3
    /\ imp.skipped = 1 /\ imp.ridersUpserted = 2
    /\ imp.callsCreated = 0 /\ imp.callsUpdated = 2
    /\ imp.again

\* C40: an import of the records the import before it completed with leaves the
\* number of Riders and of Calls as it found them.
C40_ReimportIdempotent ==
    (imp.again /\ imp.pc = "idle" /\ last.op = "import" /\ last.response = 200)
        => Len(riders) = imp.ridersBefore /\ Len(calls) = imp.callsBefore

\* the rows a listing names
Listed == {last.listing[k] : k \in DOMAIN last.listing}

\* C36: the pending-contact listing holds only Riders whose lastContactStatus is
\* null or PENDING, urgent ones first and then the most recently updated first;
\* a Rider with outcome NO_ANSWER, VOICEMAIL or COMPLETED is not in it and, asked
\* without a search, every Rider that was never contacted is.
C36_PendingListing ==
    (last.op = "pending" /\ last.response = 200) =>
        /\ \A i \in Listed : riders[i].lastContactStatus \in {NULL, "PENDING"}
        /\ \A k \in DOMAIN last.listing : \A m \in DOMAIN last.listing :
              k < m => LET a == riders[last.listing[k]]
                           b == riders[last.listing[m]]
                       IN  /\ b.urgentFlag => a.urgentFlag
                           /\ a.urgentFlag = b.urgentFlag => a.updatedAt >= b.updatedAt
        /\ \A i \in DOMAIN riders :
              riders[i].lastContactStatus \in {"NO_ANSWER", "VOICEMAIL", "COMPLETED"}
                  => i \notin Listed
        /\ Trim(last.search) = ""
              => \A i \in DOMAIN riders :
                    (riders[i].lastContactStatus = NULL
                        /\ riders[i].lastContactAt = NoTime) => i \in Listed

-----------------------------------------------------------------------------
(* Callbacks alone, from stores with a second call next to the one they     *)
(* name: r1 triggered twice, and r2 triggered once with the provider        *)
(* answering non-success (c2 FAILED, its errorMsg set).                     *)

FailedTrigger ==
    [riders |-> UpsertedRiders(InitRiders,
                    [externalId |-> 7, driverName |-> "Luis",
                     phoneNumber |-> "+34600333444"], 2),
     calls |-> Append(InitCalls,
                    FailedCall(TriggeredCall("c2", InitRiders[2], "u1", 2),
                               "HappyRobot API error", 3))]

FrameStores == {TwoRunning, FailedTrigger}

InitFrame ==
    /\ \E st \in FrameStores : riders = st.riders /\ calls = st.calls
    /\ clock = 4
    /\ trig = <<>>
    /\ cb = <<>>
    /\ last = Served("init", NoExtract, NoTime, 0, 0, 0)
    /\ served = 0
    /\ imp = NoImport
    /\ env = NoEnv

NextFrame == \E anyBody \in Payloads : Callback(anyBody)

SpecFrame == InitFrame /\ [][NextFrame]_vars

\* C37: a callback changes at most one Call and at most one Rider, the changed
\* Rider is the parent of the changed Call, no row disappears, and on a Call that
\* existed before the callback the id, riderId, createdAt, initiatedByUserId and
\* errorMsg are what they were.
C37_CallbackFrame ==
    [][CallbackStep =>
        /\ Cardinality(Changed(calls, calls')) <= 1
        /\ Cardinality(Changed(riders, riders')) <= 1
        /\ Len(calls') >= Len(calls)
        /\ Len(riders') = Len(riders)
        /\ \A i \in Changed(calls, calls') :
              /\ \A r \in Changed(riders, riders') :
                    riders[r].id = calls'[i].riderId
              /\ i \in DOMAIN calls =>
                    /\ calls'[i].id = calls[i].id
                    /\ calls'[i].riderId = calls[i].riderId
                    /\ calls'[i].createdAt = calls[i].createdAt
                    /\ calls'[i].initiatedByUserId = calls[i].initiatedByUserId
                    /\ calls'[i].errorMsg = calls[i].errorMsg
        /\ Changed(riders, riders') # {} => Changed(calls, calls') # {}]_vars

\* a callback was merged into the FAILED call c2 of r2: its errorMsg stands, and
\* c1 and r1 carry no write of that time
C37_Witness ==
    /\ last.op = "callback" /\ last.response = 200 /\ last.call = 2
    /\ calls[2].errorMsg = "HappyRobot API error"
    /\ calls[2].contactedAt = last.now
    /\ riders[2].lastContactAt = last.now
    /\ calls[1].updatedAt < last.now
    /\ riders[1].updatedAt < last.now

-----------------------------------------------------------------------------
(* The trigger handler run to its return.  Each of its statements is        *)
(* awaited and the handler resumes when the promise settles: the store      *)
(* answers, and fetch settles with a response or rejects (refused           *)
(* connection, timeout), so a handler past a statement takes its next one.  *)

TriggerAnswer(t) ==
    \/ TriggerProviderError(t)
    \/ \E runId \in ProviderRunIds : TriggerSuccess(t, runId)
    \/ TriggerException(t)

SpecTriggerFair ==
    /\ SpecTrigger
    /\ WF_vars(\E t \in DOMAIN trig : TriggerCreateCall(t))
    /\ WF_vars(\E t \in DOMAIN trig : TriggerFetch(t))
    /\ WF_vars(\E t \in DOMAIN trig : TriggerAnswer(t))

\* the handler of request t has created its Call and has not returned
TriggerInFlight(t) == t \in DOMAIN trig /\ trig[t].pc \in {"call", "fetch"}

\* the handler of request t has returned
TriggerReturned(t) == t \in DOMAIN trig /\ trig[t].pc = "done"

\* C38: a trigger handler that has created its Call returns, and the step on which
\* it returns leaves that Call RUNNING or FAILED, whatever the provider answered;
\* until then the Call is PENDING.
C38_TriggerFinishes ==
    /\ \A t \in 1..MaxTriggers : TriggerInFlight(t) ~> TriggerReturned(t)
    /\ [][\A t \in DOMAIN trig :
            TriggerInFlight(t) /\ trig'[t].pc = "done" =>
                calls'[trig[t].call].status \in {"RUNNING", "FAILED"}]_vars
    /\ [](\A t \in DOMAIN trig :
            /\ TriggerInFlight(t) => calls[trig[t].call].status = "PENDING"
            /\ TriggerReturned(t) => calls[trig[t].call].status \in {"RUNNING", "FAILED"})

\* a handler returned 500 after the provider's answer was unreadable or the
\* provider unreachable, its Call FAILED
C38_Witness ==
    /\ last.op = "trigger" /\ last.response = 500
    /\ \E t \in DOMAIN trig :
          /\ TriggerReturned(t)
          /\ last.call = trig[t].call
          /\ calls[trig[t].call].status = "FAILED"
          /\ calls[trig[t].call].errorMsg = "Failed to connect to HappyRobot API"
====
